---- MODULE Spec2Model ----
(***************************************************************************)
(* Lading Cockpit: the filtering, status, sorting and normalising engine   *)
(* of the shipment cockpit (src/lib/filters.ts, src/unnamed/part_000,      *)
(* src/app/layout.tsx, src/unnamed/part_002).                              *)
(*                                                                         *)
(* Time is counted in milliseconds, as Date.getTime() does, from the UTC   *)
(* midnight that starts 2025-10-31 (day 0), so that every time of the      *)
(* model fits a 32-bit integer.  Day 9 is 2025-11-09, day 12 is 2025-11-12.*)
(***************************************************************************)
EXTENDS Integers, Sequences, FiniteSets, TLC

VARIABLES
    PALLET_ITEMS,   \* the raw dataset, in file order
    SOURCE_DATA,    \* the enriched rows built from PALLET_ITEMS
    now,            \* the reference time handed to every computation
    variant,        \* the filters module in use: "range", "windows" or "zones"
    filters,        \* the current filter criteria
    sort,           \* the current sort spec: <<>> or <<[column, direction]>>
    filteredRows,   \* applyFilters(SOURCE_DATA, filters, now)
    refilteredRows, \* applyFilters(filteredRows, filters, now)
    visibleRows,    \* filteredRows after the sort
    statuses,       \* computeStatus of every row of SOURCE_DATA
    preAllocated,   \* the allocation flags of layout.tsx, by stableKey
    notes,          \* the notes of src/unnamed/part_002, by stableKey
    viewMode,       \* the view of layout.tsx: "lines" or "summary"
    badges,         \* the ETA badges rendered for every row of SOURCE_DATA
    downloads,      \* the CSV files the export has handed to the browser
    csvValue,       \* a field value handed to escapeCsv
    csvText,        \* <<>> or <<its escaped text>>
    pc              \* position of the page in its compute cycle

vars == <<PALLET_ITEMS, SOURCE_DATA, now, variant, filters, sort, filteredRows,
          refilteredRows, visibleRows, statuses, preAllocated, notes,
          viewMode, badges, downloads, csvValue, csvText, pc>>

\* The page state that the handlers of the filter and sort engine leave alone
pageVars == <<preAllocated, notes, viewMode, badges, downloads, csvValue,
             csvText>>

\* No row allocated, no note written, the lines view, nothing exported,
\* nothing escaped
NoPageState ==
    /\ preAllocated = <<>>
    /\ notes = <<>>
    /\ viewMode = "lines"
    /\ badges = <<>>
    /\ downloads = <<>>
    /\ csvValue = <<>>
    /\ csvText = <<>>

-----------------------------------------------------------------------------
(* Bounds of the model *)

MaxRows == 2

\* The longest text handed to escapeCsv on its own, in pieces
MaxLen == 3

-----------------------------------------------------------------------------
(* Time and dates *)

ONE_DAY_MS == 24 * 60 * 60 * 1000

\* The number NaN (the time value of an Invalid Date).  It stands outside
\* the times and day counts of the model; every comparison with it is false,
\* as in JS, and no arithmetic is done on it.
NaN == 0 - 2147483647

IsNaN(t) == t = NaN

\* a < b, a <= b, a > b, a >= b on time values (JS relational operators)
NumLt(a, b) == ~IsNaN(a) /\ ~IsNaN(b) /\ a < b
NumLe(a, b) == ~IsNaN(a) /\ ~IsNaN(b) /\ a <= b
NumGt(a, b) == ~IsNaN(a) /\ ~IsNaN(b) /\ a > b
NumGe(a, b) == ~IsNaN(a) /\ ~IsNaN(b) /\ a >= b

\* Date strings.  kind "empty" is "", "date" is YYYY-MM-DD (day d),
\* "datetime" is YYYY-MM-DDThh:mm:ss.sssZ (day d, t ms into the day),
\* "malformed" is any text that is no date.
EmptyString == [kind |-> "empty", d |-> 0, t |-> 0]
Malformed == [kind |-> "malformed", d |-> 0, t |-> 0]
DateOnly(d) == [kind |-> "date", d |-> d, t |-> 0]
DateTime(d, t) == [kind |-> "datetime", d |-> d, t |-> t]

\* The ISO string of a time value (how the dataset writes etd and eta)
IsoString(ms) == DateTime(ms \div ONE_DAY_MS, ms % ONE_DAY_MS)

\* new Date(text).getTime()
DateParse(text) ==
    CASE text.kind = "datetime" -> text.d * ONE_DAY_MS + text.t
      [] text.kind = "date" -> text.d * ONE_DAY_MS
      [] OTHER -> NaN

FIXED_NOW_ISO == DateTime(9, 0)
FIXED_NOW_LAYOUT == DateTime(12, 0)

-----------------------------------------------------------------------------
(* Dataset normalizer *)

Has(item, field) == field \in DOMAIN item

\* `${shipment_id}-${container_id ?? container_code}-${line_id ?? index}`
\* (index is the 0-based position of the record)
stableKey(item, index) ==
    item.shipment_id \o "-"
      \o (IF Has(item, "container_id") THEN item.container_id
                                       ELSE item.container_code)
      \o "-"
      \o (IF Has(item, "line_id") THEN ToString(item.line_id)
                                  ELSE ToString(index))

\* { ...item, etaDate, etdDate, stableKey }
Enrich(item, index) ==
    [etaDate |-> DateParse(item.eta),
     etdDate |-> DateParse(item.etd),
     stableKey |-> stableKey(item, index)] @@ item

Normalize(items) == [i \in 1..Len(items) |-> Enrich(items[i], i - 1)]

-----------------------------------------------------------------------------
(* Status classifier *)

\* computeStatus with the arrival test written <= instead of <
computeStatus_InclusiveArrival(row, nowTime) ==
    LET etaTime == row.etaDate
        etdTime == row.etdDate
    IN  IF NumLe(etaTime, nowTime) THEN "Arrived"
        ELSE IF NumLe(etdTime, nowTime) /\ NumLe(nowTime, etaTime) THEN "At sea"
        ELSE "Scheduled"

\* computeStatus that tests only nowTime <= etaTime for "At sea"
computeStatus_EtdIgnored(row, nowTime) ==
    LET etaTime == row.etaDate
    IN  IF NumLt(etaTime, nowTime) THEN "Arrived"
        ELSE IF NumLe(nowTime, etaTime) THEN "At sea"
        ELSE "Scheduled"

computeStatus(row, nowTime) ==
    LET etaTime == row.etaDate
        etdTime == row.etdDate
    IN  IF NumLt(etaTime, nowTime) THEN "Arrived"
        ELSE IF NumLe(etdTime, nowTime) /\ NumLe(nowTime, etaTime) THEN "At sea"
        ELSE "Scheduled"

-----------------------------------------------------------------------------
(* Filter engine *)

\* array.includes(value)
includes(array, value) == \E i \in 1..Len(array) : array[i] = value

\* value.includes("T")
includesT(value) == value.kind = "datetime"

\* `${value}${suffix}` for a suffix "Thh:mm:ss.sssZ" that is t ms into the day
WithSuffix(value, t) ==
    IF value.kind = "date" THEN DateTime(value.d, t) ELSE Malformed

\* null is <<>>, a Date object is <<time value>>
toDateOrNull(value, isEnd) ==
    IF value = EmptyString THEN <<>>
    ELSE LET suffix == IF isEnd THEN ONE_DAY_MS - 1 ELSE 0
         IN  <<DateParse(IF includesT(value) THEN value
                                             ELSE WithSuffix(value, suffix))>>

\* The same day count with the time of day dropped, as setUTCHours(0, 0, 0, 0)
\* after setUTCDate would leave it
addUTCDate_StartOfDay(t, days) ==
    IF IsNaN(t) THEN NaN
    ELSE ((t \div ONE_DAY_MS) + days) * ONE_DAY_MS

\* d = new Date(t); d.setUTCDate(d.getUTCDate() + days); d.getTime()
addUTCDate(t, days) ==
    IF IsNaN(t) THEN NaN
    ELSE ((t \div ONE_DAY_MS) + days) * ONE_DAY_MS + (t % ONE_DAY_MS)

\* Math.round(x / ONE_DAY_MS): the nearest integer, a half rounded up
roundDays(x) ==
    IF IsNaN(x) THEN NaN ELSE (x + (ONE_DAY_MS \div 2)) \div ONE_DAY_MS

\* a - b on time values
NumMinus(a, b) == IF IsNaN(a) \/ IsNaN(b) THEN NaN ELSE a - b

\* passes with the window test applied whether or not nextArrivalsOnly is set
passes_WindowAlways(item, criteria, nowTime, etaFromDate, etaToDate, windowEnd) ==
    /\ ~(criteria.port # "" /\ item.port_destination # criteria.port)
    /\ ~(criteria.variety # "" /\ item.variety # criteria.variety)
    /\ ~(criteria.caliber # "" /\ item.caliber_raw # criteria.caliber)
    /\ ~(etaFromDate # <<>> /\ NumLt(item.etaDate, etaFromDate[1]))
    /\ ~(etaToDate # <<>> /\ NumGt(item.etaDate, etaToDate[1]))
    /\ NumGt(item.etaDate, nowTime) /\ NumLe(item.etaDate, windowEnd)

\* passes with the checks chained by else-if: the caliber is looked at only
\* when no port is asked for
passes_ElseIf(item, criteria, nowTime, etaFromDate, etaToDate, windowEnd) ==
    /\ IF criteria.port # ""
          THEN item.port_destination = criteria.port
          ELSE ~(criteria.caliber # "" /\ item.caliber_raw # criteria.caliber)
    /\ ~(criteria.variety # "" /\ item.variety # criteria.variety)
    /\ ~(etaFromDate # <<>> /\ NumLt(item.etaDate, etaFromDate[1]))
    /\ ~(etaToDate # <<>> /\ NumGt(item.etaDate, etaToDate[1]))
    /\ (criteria.nextArrivalsOnly =>
          (NumGt(item.etaDate, nowTime) /\ NumLe(item.etaDate, windowEnd)))

\* passes with the end of the 7-day window excluded (< instead of <=)
passes_WindowEndExcluded(item, criteria, nowTime, etaFromDate, etaToDate, windowEnd) ==
    /\ ~(criteria.port # "" /\ item.port_destination # criteria.port)
    /\ ~(criteria.variety # "" /\ item.variety # criteria.variety)
    /\ ~(criteria.caliber # "" /\ item.caliber_raw # criteria.caliber)
    /\ ~(etaFromDate # <<>> /\ NumLt(item.etaDate, etaFromDate[1]))
    /\ ~(etaToDate # <<>> /\ NumGt(item.etaDate, etaToDate[1]))
    /\ (criteria.nextArrivalsOnly =>
          (NumGt(item.etaDate, nowTime) /\ NumLt(item.etaDate, windowEnd)))

\* The callback of items.filter in src/lib/filters.ts
passes(item, criteria, nowTime, etaFromDate, etaToDate, windowEnd) ==
    /\ ~(criteria.port # "" /\ item.port_destination # criteria.port)
    /\ ~(criteria.variety # "" /\ item.variety # criteria.variety)
    /\ ~(criteria.caliber # "" /\ item.caliber_raw # criteria.caliber)
    /\ ~(etaFromDate # <<>> /\ NumLt(item.etaDate, etaFromDate[1]))
    /\ ~(etaToDate # <<>> /\ NumGt(item.etaDate, etaToDate[1]))
    /\ (criteria.nextArrivalsOnly =>
          (NumGt(item.etaDate, nowTime) /\ NumLe(item.etaDate, windowEnd)))

Reverse(seq) == [i \in 1..Len(seq) |-> seq[Len(seq) + 1 - i]]

\* applyFilters that returns the kept rows last-first
applyFilters_Reversed(items, criteria, nowTime) ==
    LET etaFromDate == toDateOrNull(criteria.etaFrom, FALSE)
        etaToDate == toDateOrNull(criteria.etaTo, TRUE)
        windowEnd == addUTCDate(nowTime, 7)
    IN  Reverse(SelectSeq(items, LAMBDA item :
            passes(item, criteria, nowTime, etaFromDate, etaToDate, windowEnd)))

\* applyFilters whose scan starts one row late: the first kept row is lost
applyFilters_SkipFirst(items, criteria, nowTime) ==
    LET etaFromDate == toDateOrNull(criteria.etaFrom, FALSE)
        etaToDate == toDateOrNull(criteria.etaTo, TRUE)
        windowEnd == addUTCDate(nowTime, 7)
        kept == SelectSeq(items, LAMBDA item :
            passes(item, criteria, nowTime, etaFromDate, etaToDate, windowEnd))
    IN  IF kept = <<>> THEN kept ELSE Tail(kept)

applyFilters(items, criteria, nowTime) ==
    LET etaFromDate == toDateOrNull(criteria.etaFrom, FALSE)
        etaToDate == toDateOrNull(criteria.etaTo, TRUE)
        windowEnd == addUTCDate(nowTime, 7)
    IN  SelectSeq(items, LAMBDA item :
            passes(item, criteria, nowTime, etaFromDate, etaToDate, windowEnd))

matchesWindow(daysToArrival, window) ==
    CASE window = "gte_7" -> NumGe(daysToArrival, 7)
      [] window = "lte_7" -> NumLe(daysToArrival, 7)
      [] window = "lte_2" -> NumLe(daysToArrival, 2)
      [] window = "lte_1" -> NumLe(daysToArrival, 1)
      [] OTHER -> FALSE

\* matchesArrivalWindow with windows.every in the place of windows.some
matchesArrivalWindow_Every(etaDate, nowTime, windows) ==
    LET daysToArrival == roundDays(NumMinus(etaDate, nowTime))
    IN  \A i \in 1..Len(windows) : matchesWindow(daysToArrival, windows[i])

matchesArrivalWindow(etaDate, nowTime, windows) ==
    LET daysToArrival == roundDays(NumMinus(etaDate, nowTime))
    IN  \E i \in 1..Len(windows) : matchesWindow(daysToArrival, windows[i])

\* The callback of items.filter in src/unnamed/part_000
passesWindows(item, criteria, nowTime, windowEnd) ==
    /\ ~(Len(criteria.ports) # 0
          /\ ~includes(criteria.ports, item.port_destination))
    /\ ~(Len(criteria.packFormats) # 0
          /\ ~includes(criteria.packFormats, item.pack_format_raw))
    /\ ~(Len(criteria.varieties) # 0
          /\ ~includes(criteria.varieties, item.variety))
    /\ ~(Len(criteria.calibers) # 0
          /\ ~includes(criteria.calibers, item.caliber_raw))
    /\ ~(Len(criteria.arrivalWindows) # 0
          /\ ~matchesArrivalWindow(item.etaDate, nowTime, criteria.arrivalWindows))
    /\ (criteria.nextArrivalsOnly =>
          (NumGt(item.etaDate, nowTime) /\ NumLe(item.etaDate, windowEnd)))

applyFiltersWindows(items, criteria, nowTime) ==
    LET windowEnd == addUTCDate(nowTime, 7)
    IN  SelectSeq(items, LAMBDA item :
            passesWindows(item, criteria, nowTime, windowEnd))

\* INITIAL_FILTERS of layout.tsx, and the part of the UI filters that is
\* handed to applyFilters ({ preAllocatedFilter, ...dataFilters } = filters)
INITIAL_FILTERS ==
    [port |-> "", variety |-> "", caliber |-> "", etaFrom |-> EmptyString,
     etaTo |-> EmptyString, nextArrivalsOnly |-> FALSE,
     preAllocatedFilter |-> "all"]

dataFilters(uiFilters) ==
    [k \in DOMAIN uiFilters \ {"preAllocatedFilter"} |-> uiFilters[k]]

\* The filters module that src/unnamed/part_002 imports is not among the
\* sources; its zone table and its applyFilters follow the design document.
\* ZONES names sets of destination ports; "All" is the unconstrained zone.
ZONES ==
    [zone \in {"North", "South"} |->
        IF zone = "North" THEN <<"Rotterdam">> ELSE <<"Algeciras", "Valencia">>]

\* Zone/port membership: when the zone names a set of ports, the destination
\* of the row must be in it; an unknown zone does not restrict
matchesZone(item, zone) ==
    zone \in DOMAIN ZONES => includes(ZONES[zone], item.port_destination)

\* applyFilters of that module: the zone check combined by AND with the
\* checks of src/lib/filters.ts; the search term is empty in every state of
\* this model
applyFiltersZones(items, criteria, nowTime) ==
    SelectSeq(applyFilters(items, criteria, nowTime),
              LAMBDA item : matchesZone(item, criteria.zone))

\* INITIAL_FILTERS of src/unnamed/part_002
ZONE_INITIAL_FILTERS ==
    [zone |-> "All", port |-> "", variety |-> "", caliber |-> "",
     etaFrom |-> EmptyString, etaTo |-> EmptyString, search |-> "",
     nextArrivalsOnly |-> FALSE]

\* The applyFilters of the filters module the page imports
filterRows(v, items, criteria, nowTime) ==
    CASE v = "range" -> applyFilters(items, criteria, nowTime)
      [] v = "zones" -> applyFiltersZones(items, criteria, nowTime)
      [] OTHER -> applyFiltersWindows(items, criteria, nowTime)

\* map[key] read as a condition: an absent key is undefined, which is falsy
flagOf(map, key) == key \in DOMAIN map /\ map[key]

\* preAllocated[getRowKey(row)] ?? false
isRowPreAllocated(allocated, row) == flagOf(allocated, row.stableKey)

\* filteredRows with a "not_pre" that keeps only the rows whose flag is stored
\* as false, and drops the rows that have no flag
pageFilteredRows_UnsetDropped(uiFilters, allocated) ==
    LET rows == filterRows(variant, SOURCE_DATA, dataFilters(uiFilters), now)
    IN  IF variant = "zones" THEN rows
        ELSE SelectSeq(rows, LAMBDA row :
            CASE uiFilters.preAllocatedFilter = "pre" ->
                    isRowPreAllocated(allocated, row)
              [] uiFilters.preAllocatedFilter = "not_pre" ->
                    /\ row.stableKey \in DOMAIN allocated
                    /\ ~allocated[row.stableKey]
              [] OTHER -> TRUE)

\* filteredRows of layout.tsx: applyFilters on the data filters, then the
\* pre-allocation filter; filteredRows of src/unnamed/part_002 (the page of
\* the "zones" module) is the applyFilters result as it is
pageFilteredRows(uiFilters, allocated) ==
    LET rows == filterRows(variant, SOURCE_DATA, dataFilters(uiFilters), now)
    IN  IF variant = "zones" THEN rows
        ELSE SelectSeq(rows, LAMBDA row :
            CASE uiFilters.preAllocatedFilter = "pre" ->
                    isRowPreAllocated(allocated, row)
              [] uiFilters.preAllocatedFilter = "not_pre" ->
                    ~isRowPreAllocated(allocated, row)
              [] OTHER -> TRUE)

-----------------------------------------------------------------------------
(* Inputs of the model *)

\* The reference times: FIXED_NOW of part_002 (FIXED_NOW_ISO, a UTC midnight),
\* FIXED_NOW of layout.tsx, and a wall-clock time that is no midnight.
NowValues ==
    {DateParse(FIXED_NOW_ISO), DateParse(FIXED_NOW_LAYOUT),
     DateParse(DateTime(10, 15 * 60 * 60 * 1000 + 1))}

\* A record of the dataset; line ids are given by NumberLines
RawItem(port, variety, caliber, pack, etd, eta) ==
    [shipment_id |-> "S1", container_id |-> "C1", container_code |-> "MSKU1",
     port_destination |-> port, variety |-> variety, caliber_raw |-> caliber,
     pack_format_raw |-> pack, etd |-> etd, eta |-> eta,
     line_weight_kg |-> 100]

NumberLines(items) == [i \in 1..Len(items) |-> [line_id |-> i] @@ items[i]]

\* The datasets of at most n records drawn from a set of records
Datasets(records, n) ==
    {NumberLines(items) : items \in UNION {[1..k -> records] : k \in 0..n}}

\* The date strings at the given offsets (ms) from a time, and a malformed one
DateStrings(t, offsets) == {IsoString(t + off) : off \in offsets} \cup {Malformed}

-----------------------------------------------------------------------------
(* Specification SpecStatus: the status classifier on one-row datasets *)

StatusOffsets ==
    {0 - ONE_DAY_MS, 0 - 1, 0, 1, ONE_DAY_MS, 7 * ONE_DAY_MS, 7 * ONE_DAY_MS + 1}

StatusItems(t) ==
    {RawItem("Rotterdam", "Hass", "18", "4kg", etd, eta) :
        etd \in DateStrings(t, StatusOffsets), eta \in DateStrings(t, StatusOffsets)}

NoFilters == [none |-> TRUE]

InitStatus ==
    /\ now \in NowValues
    /\ PALLET_ITEMS \in {NumberLines(<<item>>) : item \in StatusItems(now)}
    /\ SOURCE_DATA = Normalize(PALLET_ITEMS)
    /\ variant = "range"
    /\ filters = NoFilters
    /\ sort = <<>>
    /\ filteredRows = <<>>
    /\ refilteredRows = <<>>
    /\ visibleRows = <<>>
    /\ statuses = <<>>
    /\ NoPageState
    /\ pc = "ready"

\* The page renders the status of every row
ClassifyRows ==
    /\ pc = "ready"
    /\ statuses' = [i \in 1..Len(SOURCE_DATA) |-> computeStatus(SOURCE_DATA[i], now)]
    /\ pc' = "classified"
    /\ UNCHANGED <<PALLET_ITEMS, SOURCE_DATA, now, variant, filters, sort,
                   filteredRows, refilteredRows, visibleRows, pageVars>>

NextStatus == ClassifyRows

SpecStatus == InitStatus /\ [][NextStatus]_vars

\* C1: for every row and every reference time computeStatus returns exactly
\* one of Arrived, At sea, Scheduled: Arrived iff eta < now, At sea iff
\* etd <= now <= eta, Scheduled otherwise.  With eta = now the status is never
\* Arrived and is At sea iff etd <= now; with etd = eta = now it is At sea.
C1_StatusPartition ==
    pc = "classified" =>
        \A i \in 1..Len(SOURCE_DATA) :
            LET eta == SOURCE_DATA[i].etaDate
                etd == SOURCE_DATA[i].etdDate
                arrived == ~IsNaN(eta) /\ eta < now
                atSea == ~IsNaN(eta) /\ ~IsNaN(etd) /\ etd <= now /\ now <= eta
            IN  /\ statuses[i] \in {"Arrived", "At sea", "Scheduled"}
                /\ (statuses[i] = "Arrived") <=> arrived
                /\ (statuses[i] = "At sea") <=> atSea
                /\ (statuses[i] = "Scheduled") <=> (~arrived /\ ~atSea)
                /\ (eta = now) =>
                      /\ statuses[i] # "Arrived"
                      /\ (statuses[i] = "At sea") <=> (~IsNaN(etd) /\ etd <= now)
                /\ (eta = now /\ etd = now) => statuses[i] = "At sea"

\* A row with etd = eta = now has been classified At sea
C1_Witness ==
    /\ pc = "classified"
    /\ Len(SOURCE_DATA) = 1
    /\ SOURCE_DATA[1].etaDate = now
    /\ SOURCE_DATA[1].etdDate = now
    /\ statuses[1] = "At sea"

-----------------------------------------------------------------------------
(* Specification SpecFilter: applyFilters on small datasets *)

\* The reference times of SpecFilter: a UTC midnight and a time that is none
FilterNows == {DateParse(FIXED_NOW_ISO), DateParse(DateTime(10, 15 * 60 * 60 * 1000 + 1))}

\* eta at now, just after, at the end of the 7-day window and just after it
FilterOffsets == {0, 1, 7 * ONE_DAY_MS, 7 * ONE_DAY_MS + 1}

\* The records differ in port and eta; the criteria below match or miss their
\* fixed variety, caliber and pack format
FilterItems(t) ==
    {RawItem(port, "Hass", "18", "4kg", IsoString(t - ONE_DAY_MS), eta) :
        port \in {"Rotterdam", "Algeciras"}, eta \in DateStrings(t, FilterOffsets)}

\* The UTC day of a time
UTCDay(t) == t \div ONE_DAY_MS

\* Criteria of src/lib/filters.ts
RangeCriteria(t) ==
    [port : {"", "Rotterdam"}, variety : {"", "Hass"}, caliber : {"", "20"},
     etaFrom : {EmptyString, DateOnly(UTCDay(t)), DateOnly(UTCDay(t) + 7)},
     etaTo : {EmptyString, DateOnly(UTCDay(t) + 6)},
     nextArrivalsOnly : BOOLEAN]

\* Criteria of src/unnamed/part_000
WindowsCriteria ==
    [ports : {<<>>, <<"Valencia", "Rotterdam">>},
     varieties : {<<>>, <<"Hass">>},
     calibers : {<<>>, <<"20">>},
     packFormats : {<<>>, <<"4kg">>},
     arrivalWindows : {<<>>, <<"lte_1">>, <<"gte_7", "lte_2">>},
     nextArrivalsOnly : BOOLEAN]

CriteriaOf(v, t) == IF v = "range" THEN RangeCriteria(t) ELSE WindowsCriteria

InitFilter ==
    /\ now \in FilterNows
    /\ PALLET_ITEMS \in Datasets(FilterItems(now), MaxRows)
    /\ SOURCE_DATA = Normalize(PALLET_ITEMS)
    /\ variant \in {"range", "windows"}
    /\ filters \in CriteriaOf(variant, now)
    /\ sort = <<>>
    /\ filteredRows = <<>>
    /\ refilteredRows = <<>>
    /\ visibleRows = <<>>
    /\ statuses = <<>>
    /\ NoPageState
    /\ pc = "ready"

\* filteredRows = applyFilters(SOURCE_DATA, filters, FIXED_NOW)
ApplyFilters ==
    /\ pc = "ready"
    /\ filteredRows' = filterRows(variant, SOURCE_DATA, filters, now)
    /\ pc' = "filtered"
    /\ UNCHANGED <<PALLET_ITEMS, SOURCE_DATA, now, variant, filters, sort,
                   refilteredRows, visibleRows, statuses, pageVars>>

\* applyFilters applied to its own result
ApplyFiltersAgain ==
    /\ pc = "filtered"
    /\ refilteredRows' = filterRows(variant, filteredRows, filters, now)
    /\ pc' = "refiltered"
    /\ UNCHANGED <<PALLET_ITEMS, SOURCE_DATA, now, variant, filters, sort,
                   filteredRows, visibleRows, statuses, pageVars>>

NextFilter == ApplyFilters \/ ApplyFiltersAgain

SpecFilter == InitFilter /\ [][NextFilter]_vars

HasFiltered == pc \in {"filtered", "refiltered"}

\* row is one of the rows of seq
InSeq(row, seq) == \E k \in 1..Len(seq) : seq[k] = row

\* s is t with some rows left out, the others in the order of t
IsSubsequence(s, t) ==
    \E f \in [1..Len(s) -> 1..Len(t)] :
        /\ \A i \in 1..Len(s) : s[i] = t[f[i]]
        /\ \A i, j \in 1..Len(s) : i < j => f[i] < f[j]

\* C2: applyFilters returns a subsequence of its input: every returned row is
\* an input row, no row is returned twice, and the returned rows keep their
\* relative order.
C2_FilterSubsequence ==
    HasFiltered =>
        /\ IsSubsequence(filteredRows, SOURCE_DATA)
        /\ \A i, j \in 1..Len(filteredRows) :
              i # j => filteredRows[i] # filteredRows[j]

\* Two rows for different ports passed an active criterion and were returned
\* in the input order
C2_Witness ==
    /\ HasFiltered
    /\ Len(SOURCE_DATA) = 2
    /\ SOURCE_DATA[1].port_destination # SOURCE_DATA[2].port_destination
    /\ filters.nextArrivalsOnly
    /\ filteredRows = SOURCE_DATA

\* C3: applyFilters is idempotent: filtering the filtered rows again with the
\* same criteria and the same reference time changes nothing.
C3_FilterIdempotent ==
    pc = "refiltered" => refilteredRows = filteredRows

\* A filter that dropped one row and kept one has been applied twice
C3_Witness ==
    /\ pc = "refiltered"
    /\ Len(SOURCE_DATA) = 2
    /\ Len(filteredRows) = 1
    /\ refilteredRows = filteredRows

\* every criterion of the filters module in use is empty
AllCriteriaEmpty ==
    IF variant = "range"
    THEN filters = dataFilters(INITIAL_FILTERS)
    ELSE /\ filters.ports = <<>> /\ filters.varieties = <<>>
         /\ filters.calibers = <<>> /\ filters.packFormats = <<>>
         /\ filters.arrivalWindows = <<>> /\ ~filters.nextArrivalsOnly

\* C4: with every criterion empty, applyFilters returns every input row in
\* the input order, whatever the reference time, rows with an unparseable
\* eta included.
C4_EmptyCriteriaIdentity ==
    (HasFiltered /\ AllCriteriaEmpty) => filteredRows = SOURCE_DATA

\* Empty criteria were applied to two rows, one of them with an unparseable eta
C4_Witness ==
    /\ HasFiltered
    /\ AllCriteriaEmpty
    /\ Len(SOURCE_DATA) = 2
    /\ IsNaN(SOURCE_DATA[1].etaDate)
    /\ ~IsNaN(SOURCE_DATA[2].etaDate)
    /\ filteredRows = SOURCE_DATA

\* The dimensions of the criteria, and the empty value of each
Dimensions(v) ==
    IF v = "range"
    THEN {"port", "variety", "caliber", "etaFrom", "etaTo", "nextArrivalsOnly"}
    ELSE {"ports", "varieties", "calibers", "packFormats", "arrivalWindows",
          "nextArrivalsOnly"}

EmptyValue(v, dim) ==
    CASE dim = "nextArrivalsOnly" -> FALSE
      [] dim \in {"etaFrom", "etaTo"} -> EmptyString
      [] dim \in {"port", "variety", "caliber"} -> ""
      [] OTHER -> <<>>

ActiveDimensions(v, criteria) ==
    {dim \in Dimensions(v) : criteria[dim] # EmptyValue(v, dim)}

\* criteria with every dimension but dim emptied
OnlyDimension(v, criteria, dim) ==
    [d \in Dimensions(v) |-> IF d = dim THEN criteria[d] ELSE EmptyValue(v, d)]

\* C5: the active constraints combine by AND and an empty constraint does not
\* constrain: a row is returned under criteria C iff it is returned under
\* every criteria that keeps one non-empty dimension of C and empties the rest.
C5_ConstraintsCombineByAnd ==
    pc = "filtered" =>
        LET active == ActiveDimensions(variant, filters)
            alone == [dim \in active |->
                        filterRows(variant, SOURCE_DATA,
                                   OnlyDimension(variant, filters, dim), now)]
        IN  \A i \in 1..Len(SOURCE_DATA) :
                InSeq(SOURCE_DATA[i], filteredRows)
                <=> \A dim \in active : InSeq(SOURCE_DATA[i], alone[dim])

\* Under criteria with several active dimensions a row that one dimension
\* alone keeps and another alone drops has been dropped, and another row kept
C5_Witness ==
    /\ HasFiltered
    /\ Cardinality(ActiveDimensions(variant, filters)) >= 2
    /\ Len(SOURCE_DATA) = 2
    /\ Len(filteredRows) = 1
    /\ \E i \in 1..2 : \E d1, d2 \in ActiveDimensions(variant, filters) :
          /\ ~InSeq(SOURCE_DATA[i], filteredRows)
          /\ InSeq(SOURCE_DATA[i],
                   filterRows(variant, SOURCE_DATA,
                              OnlyDimension(variant, filters, d1), now))
          /\ ~InSeq(SOURCE_DATA[i],
                    filterRows(variant, SOURCE_DATA,
                               OnlyDimension(variant, filters, d2), now))

\* eta lies in the next-arrivals window: now < eta <= now + 7 x 24 h
InNextSevenDays(row) ==
    /\ ~IsNaN(row.etaDate)
    /\ now < row.etaDate
    /\ row.etaDate <= now + 7 * 24 * 60 * 60 * 1000

\* C6: with nextArrivalsOnly set, the returned rows are exactly the input rows
\* with now < eta <= now + 7 days (7 x 24 h) that satisfy the other active
\* criteria; so a row with eta = now is not returned and a row with
\* eta = now + 7 days is.
C6_NextArrivalsWindow ==
    (HasFiltered /\ filters.nextArrivalsOnly) =>
        LET others == filterRows(variant, SOURCE_DATA,
                                 [filters EXCEPT !.nextArrivalsOnly = FALSE], now)
        IN  \A i \in 1..Len(SOURCE_DATA) :
                InSeq(SOURCE_DATA[i], filteredRows)
                <=> /\ InNextSevenDays(SOURCE_DATA[i])
                    /\ InSeq(SOURCE_DATA[i], others)

\* With nextArrivalsOnly set, a row with eta = now was dropped and a row with
\* eta = now + 7 days was returned
C6_Witness ==
    /\ HasFiltered
    /\ filters.nextArrivalsOnly
    /\ Len(SOURCE_DATA) = 2
    /\ SOURCE_DATA[1].etaDate = now
    /\ SOURCE_DATA[2].etaDate = now + 7 * ONE_DAY_MS
    /\ filteredRows = <<SOURCE_DATA[2]>>

-----------------------------------------------------------------------------
(* Specification SpecRange: the arrival-date range of src/lib/filters.ts,  *)
(* with eta on both sides of the bounds of day 10 (2025-11-10)             *)

RangeDay == 10

HalfDay == ONE_DAY_MS \div 2

\* eta just before day 10, at its start, at noon, at its last ms, just after
RangeEtas ==
    {IsoString(t) : t \in {RangeDay * ONE_DAY_MS - 1, RangeDay * ONE_DAY_MS,
                           RangeDay * ONE_DAY_MS + HalfDay,
                           (RangeDay + 1) * ONE_DAY_MS - 1,
                           (RangeDay + 1) * ONE_DAY_MS}}
      \cup {Malformed, EmptyString}

RangeItems ==
    {RawItem("Rotterdam", "Hass", "18", "4kg", IsoString(RangeDay * ONE_DAY_MS), eta) :
        eta \in RangeEtas}

RangeBounds == {EmptyString, DateOnly(RangeDay), DateTime(RangeDay, HalfDay)}

InitRange ==
    /\ now = DateParse(FIXED_NOW_ISO)
    /\ PALLET_ITEMS \in Datasets(RangeItems, MaxRows)
    /\ SOURCE_DATA = Normalize(PALLET_ITEMS)
    /\ variant = "range"
    /\ filters \in [port : {"", "Algeciras"}, variety : {""}, caliber : {""},
                    etaFrom : RangeBounds, etaTo : RangeBounds,
                    nextArrivalsOnly : BOOLEAN]
    /\ sort = <<>>
    /\ filteredRows = <<>>
    /\ refilteredRows = <<>>
    /\ visibleRows = <<>>
    /\ statuses = <<>>
    /\ NoPageState
    /\ pc = "ready"

NextRange == ApplyFilters

SpecRange == InitRange /\ [][NextRange]_vars

\* eta is not before the lower bound: the start of the day for a bound that is
\* a day, the bound itself for a bound with a time
NotBeforeFrom(row, etaFrom) ==
    CASE etaFrom.kind = "date" ->
            ~IsNaN(row.etaDate) /\ row.etaDate >= etaFrom.d * ONE_DAY_MS
      [] etaFrom.kind = "datetime" ->
            ~IsNaN(row.etaDate) /\ row.etaDate >= etaFrom.d * ONE_DAY_MS + etaFrom.t
      [] OTHER -> TRUE

\* eta is not after the upper bound: 23:59:59.999 of the day for a bound that
\* is a day, the bound itself for a bound with a time
NotAfterTo(row, etaTo) ==
    CASE etaTo.kind = "date" ->
            ~IsNaN(row.etaDate)
            /\ row.etaDate <= etaTo.d * ONE_DAY_MS + (ONE_DAY_MS - 1)
      [] etaTo.kind = "datetime" ->
            ~IsNaN(row.etaDate) /\ row.etaDate <= etaTo.d * ONE_DAY_MS + etaTo.t
      [] OTHER -> TRUE

OnlyDateRange ==
    /\ variant = "range"
    /\ filters.port = "" /\ filters.variety = "" /\ filters.caliber = ""
    /\ ~filters.nextArrivalsOnly

\* C7: the arrival-date range is inclusive at UTC day boundaries: with
\* etaFrom a day D a row passes iff eta >= D 00:00:00.000, with etaTo a day D
\* iff eta <= D 23:59:59.999, and a bound with a time component is used as
\* given.
C7_DateRangeInclusive ==
    (pc = "filtered" /\ OnlyDateRange) =>
        \A i \in 1..Len(SOURCE_DATA) :
            InSeq(SOURCE_DATA[i], filteredRows)
            <=> /\ NotBeforeFrom(SOURCE_DATA[i], filters.etaFrom)
                /\ NotAfterTo(SOURCE_DATA[i], filters.etaTo)

\* C8: a row whose eta is malformed or missing is excluded from the result
\* whenever etaFrom or etaTo is set.
C8_UnparseableEtaExcluded ==
    (pc = "filtered" /\ variant = "range"
       /\ (filters.etaFrom # EmptyString \/ filters.etaTo # EmptyString)) =>
        \A i \in 1..Len(SOURCE_DATA) :
            IsNaN(SOURCE_DATA[i].etaDate) => ~InSeq(SOURCE_DATA[i], filteredRows)

-----------------------------------------------------------------------------
(* Sort engine *)

\* a === b on numbers
NumEq(a, b) == ~IsNaN(a) /\ ~IsNaN(b) /\ a = b

\* Math.round((row.etaDate.getTime() - FIXED_NOW.getTime()) / ONE_DAY_MS)
getDaysToArrival(row) == roundDays(NumMinus(row.etaDate, now))

\* getComparableValue for the date columns of part_002, the numeric columns
\* of both pages, and the days_to_arrival and pre_allocated columns of
\* layout.tsx; sessionMap is the map the page hands over (the notes of part_002,
\* preAllocated in layout.tsx)
getComparableValue(row, sessionMap, column) ==
    CASE column = "etd" -> row.etdDate
      [] column = "eta" -> row.etaDate
      [] column = "days_to_arrival" -> getDaysToArrival(row)
      [] column = "pre_allocated" ->
            IF flagOf(sessionMap, row.stableKey) THEN 1 ELSE 0
      [] column \in {"box_count", "box_weight_kg", "line_weight_kg"} ->
            IF Has(row, column) THEN row[column] ELSE 0

\* The comparator handed to sorted.sort
compareRows(a, b, sessionMap, sortSpec) ==
    LET aValue == getComparableValue(a, sessionMap, sortSpec.column)
        bValue == getComparableValue(b, sessionMap, sortSpec.column)
    IN  IF NumEq(aValue, bValue) THEN 0
        ELSE IF NumGt(aValue, bValue)
             THEN (IF sortSpec.direction = "asc" THEN 1 ELSE 0 - 1)
             ELSE (IF sortSpec.direction = "asc" THEN 0 - 1 ELSE 1)

\* The orders of the positions 1..n
Orders(n) == {f \in [1..n -> 1..n] : \A i, j \in 1..n : i # j => f[i] # f[j]}

\* c[i][j] is the comparison of the rows at i and j
comparisons(rows, sessionMap, sortSpec) ==
    [i \in 1..Len(rows) |-> [j \in 1..Len(rows) |->
        compareRows(rows[i], rows[j], sessionMap, sortSpec)]]

\* The comparisons c of n rows are those of a consistent comparator
\* (ECMAScript, Array.prototype.sort)
ConsistentTable(c, n) ==
    /\ \A i \in 1..n : c[i][i] = 0
    /\ \A i, j \in 1..n : /\ (c[i][j] = 0) => (c[j][i] = 0)
                          /\ (c[i][j] < 0) <=> (c[j][i] > 0)
    /\ \A i, j, k \in 1..n :
          /\ (c[i][j] = 0 /\ c[j][k] = 0) => (c[i][k] = 0)
          /\ (c[i][j] < 0 /\ c[j][k] < 0) => (c[i][k] < 0)
          /\ (c[i][j] > 0 /\ c[j][k] > 0) => (c[i][k] > 0)

\* compareRows is a consistent comparator for the rows
IsConsistent(rows, sessionMap, sortSpec) ==
    \E c \in {comparisons(rows, sessionMap, sortSpec)} : ConsistentTable(c, Len(rows))

\* a sort that keeps one row of every group of rows that compare equal
sortOutcomes_DropTies(rows, sessionMap, sortSpec) ==
    UNION {
        LET keep == {i \in 1..Len(rows) : \A j \in 1..(i - 1) : c[j][i] # 0}
            n == Cardinality(keep)
            sortedStable(f) == \A i, j \in 1..n : i < j => c[f[i]][f[j]] <= 0
            orders == {f \in [1..n -> keep] :
                          /\ \A i, j \in 1..n : i # j => f[i] # f[j]
                          /\ (ConsistentTable(c, Len(rows)) => sortedStable(f))}
        IN  {[i \in 1..n |-> rows[f[i]]] : f \in orders}
        : c \in {comparisons(rows, sessionMap, sortSpec)}}

\* sorted.sort(comparator): with a consistent comparator the one stable sorted
\* order; with an inconsistent one the order is implementation-defined, and
\* any order of the rows may come out
sortOutcomes(rows, sessionMap, sortSpec) ==
    UNION {
        LET n == Len(rows)
            sortedStable(f) ==
                \A i, j \in 1..n : i < j =>
                    \/ c[f[i]][f[j]] < 0
                    \/ (c[f[i]][f[j]] = 0 /\ f[i] < f[j])
            orders == IF ConsistentTable(c, n)
                      THEN {f \in Orders(n) : sortedStable(f)}
                      ELSE Orders(n)
        IN  {[i \in 1..n |-> rows[f[i]]] : f \in orders}
        : c \in {comparisons(rows, sessionMap, sortSpec)}}

\* The values visibleRows can take for the filtered rows and the sort spec
visibleOutcomes(rows, sessionMap, sortState) ==
    IF sortState = <<>> THEN {rows}
    ELSE sortOutcomes(rows, sessionMap, sortState[1])

\* a setSort that keeps the current direction when another column is clicked
nextSort_KeepDirection(current, column) ==
    IF current = <<>> THEN <<[column |-> column, direction |-> "asc"]>>
    ELSE IF current[1].column = column
    THEN <<[column |-> column,
            direction |-> IF current[1].direction = "asc" THEN "desc" ELSE "asc"]>>
    ELSE <<[column |-> column, direction |-> current[1].direction]>>

\* setSort of handleSort
nextSort(current, column) ==
    IF current # <<>> /\ current[1].column = column
    THEN <<[column |-> column,
            direction |-> IF current[1].direction = "asc" THEN "desc" ELSE "asc"]>>
    ELSE <<[column |-> column, direction |-> "asc"]>>

-----------------------------------------------------------------------------
(* Specification SpecSort: the sort of the visible rows, all filters empty *)

SortColumns == {"etd", "eta", "line_weight_kg"}

NoNotes == <<>>

SortItems ==
    {[RawItem("Rotterdam", "Hass", "18", "4kg", etd, eta) EXCEPT !.line_weight_kg = w] :
        etd \in {IsoString(8 * ONE_DAY_MS), Malformed},
        eta \in {IsoString(10 * ONE_DAY_MS), IsoString(11 * ONE_DAY_MS), Malformed},
        w \in {100, 200}}

InitSort ==
    /\ now = DateParse(FIXED_NOW_ISO)
    /\ PALLET_ITEMS \in Datasets(SortItems, MaxRows)
    /\ SOURCE_DATA = Normalize(PALLET_ITEMS)
    /\ variant = "range"
    /\ filters = INITIAL_FILTERS
    /\ sort = <<>>
    /\ filteredRows = pageFilteredRows(filters, <<>>)
    /\ refilteredRows = <<>>
    /\ visibleRows = filteredRows
    /\ statuses = <<>>
    /\ NoPageState
    /\ pc = "ready"

\* The map the page hands to getComparableValue: preAllocated in layout.tsx,
\* notes in src/unnamed/part_002
sessionMapOf(allocated, noteMap) ==
    IF variant = "zones" THEN noteMap ELSE allocated

\* INITIAL_FILTERS of the page
initialFilters ==
    IF variant = "zones" THEN ZONE_INITIAL_FILTERS ELSE INITIAL_FILTERS

\* A click on a column header; the visible rows are computed anew
handleSort(column) ==
    /\ pc = "ready"
    /\ \E next \in {nextSort(sort, column)} :
          /\ sort' = next
          /\ visibleRows' \in visibleOutcomes(filteredRows,
                                sessionMapOf(preAllocated, notes), next)
    /\ UNCHANGED <<PALLET_ITEMS, SOURCE_DATA, now, variant, filters,
                   filteredRows, refilteredRows, statuses, pc, pageVars>>

\* A clear-all that also forgets the allocation flags and the notes
clearAllFilters_ClearsSession ==
    /\ pc = "ready"
    /\ filters' = initialFilters
    /\ sort' = <<>>
    /\ preAllocated' = <<>>
    /\ notes' = <<>>
    /\ \E rows \in {pageFilteredRows(initialFilters, <<>>)} :
          /\ filteredRows' = rows
          /\ visibleRows' = rows
    /\ UNCHANGED <<PALLET_ITEMS, SOURCE_DATA, now, variant, refilteredRows,
                   statuses, pc, viewMode, badges, downloads, csvValue, csvText>>

\* Clear all: the filters go back to INITIAL_FILTERS and the sort to none
clearAllFilters ==
    /\ pc = "ready"
    /\ filters' = initialFilters
    /\ sort' = <<>>
    /\ \E rows \in {pageFilteredRows(initialFilters, preAllocated)} :
          /\ filteredRows' = rows
          /\ visibleRows' = rows
    /\ UNCHANGED <<PALLET_ITEMS, SOURCE_DATA, now, variant, refilteredRows,
                   statuses, pc, pageVars>>

NextSort ==
    \/ \E column \in SortColumns : handleSort(column)
    \/ clearAllFilters

SpecSort == InitSort /\ [][NextSort]_vars

\* C9: sorted by a date column (etd or eta), the rows whose date is
\* not-a-number stand after all rows with a valid date, ascending and
\* descending.
C9_UnparseableDatesLast ==
    (sort # <<>> /\ sort[1].column \in {"etd", "eta"}) =>
        \A i, j \in 1..Len(visibleRows) :
            (/\ IsNaN(getComparableValue(visibleRows[i], NoNotes, sort[1].column))
             /\ ~IsNaN(getComparableValue(visibleRows[j], NoNotes, sort[1].column)))
            => j < i

\* s holds the rows of t, each as often as t does
IsPermutation(s, t) ==
    /\ Len(s) = Len(t)
    /\ \E f \in Orders(Len(s)) : \A i \in 1..Len(s) : s[i] = t[f[i]]

\* C11: the visible rows are a permutation of the filtered rows for every
\* sort column and direction and for no sort: the same rows with the same
\* multiplicities, none added and none dropped; with no sort spec the visible
\* rows are the filtered rows in the filtered order.
C11_SortPermutation ==
    /\ IsPermutation(visibleRows, filteredRows)
    /\ (sort = <<>> => visibleRows = filteredRows)

\* A sort has moved the rows: two rows that tie on etd are shown in another
\* order than the filtered one after a sort by weight
C11_Witness ==
    /\ sort # <<>>
    /\ sort[1].column = "line_weight_kg"
    /\ Len(filteredRows) = 2
    /\ filteredRows[1].etdDate = filteredRows[2].etdDate
    /\ visibleRows = Reverse(filteredRows)

\* C12: in every step the sort spec follows the rule of the column headers:
\* a click on the active column flips its direction and keeps the column, a
\* click on another column (or on any column when no sort is active) sets that
\* column ascending, and clear-all sets the sort spec to none.
C12_SortToggleRule ==
    [][/\ \A column \in SortColumns :
              handleSort(column) =>
                  /\ sort' # <<>>
                  /\ sort'[1].column = column
                  /\ IF sort # <<>> /\ sort[1].column = column
                        THEN /\ sort[1].direction = "asc"
                                => sort'[1].direction = "desc"
                             /\ sort[1].direction = "desc"
                                => sort'[1].direction = "asc"
                        ELSE sort'[1].direction = "asc"
       /\ clearAllFilters => sort' = <<>>
       /\ sort' # <<>> => sort'[1].direction \in {"asc", "desc"}]_vars

\* The active column has been clicked again: the sort is descending
C12_Witness ==
    /\ sort = <<[column |-> "eta", direction |-> "desc"]>>
    /\ Len(visibleRows) = 2

\* every row has a number in the column, none has NaN
AllComparable(rows, column) ==
    \A i \in 1..Len(rows) : ~IsNaN(getComparableValue(rows[i], preAllocated, column))

\* C13: the descending sort is the exact reverse of the ascending sort: when
\* the direction of the active column is toggled, the visible rows come out
\* in the reverse of the order they had (rows with a NaN value set aside).
C13_DescReversesAsc ==
    [][(/\ sort # <<>>
        /\ sort' # <<>>
        /\ sort'[1].column = sort[1].column
        /\ AllComparable(filteredRows, sort[1].column))
       => visibleRows' = Reverse(visibleRows)]_vars

-----------------------------------------------------------------------------
(* Specification SpecNormalize: the dataset normalizer on small datasets   *)
(* whose records may lack container_id or line_id                          *)

\* f without the field name
Without(f, name) == [k \in DOMAIN f \ {name} |-> f[k]]

NormalizeItems ==
    LET full == {[RawItem("Rotterdam", variety, "18", "4kg",
                          IsoString(8 * ONE_DAY_MS), IsoString(10 * ONE_DAY_MS))
                    EXCEPT !.shipment_id = s, !.container_id = c,
                           !.container_code = code] @@ [line_id |-> l] :
                    variety \in {"Hass", "Fuerte"}, s \in {"S1", "S2"},
                    c \in {"C1"}, code \in {"C1", "MSKU1"}, l \in {1, 2}}
    IN  full \cup {Without(item, "line_id") : item \in full}
             \cup {Without(item, "container_id") : item \in full}

InitNormalize ==
    /\ now = DateParse(FIXED_NOW_ISO)
    /\ PALLET_ITEMS \in UNION {[1..k -> NormalizeItems] : k \in 0..MaxRows}
    /\ SOURCE_DATA = <<>>
    /\ variant = "range"
    /\ filters = dataFilters(INITIAL_FILTERS)
    /\ sort = <<>>
    /\ filteredRows = <<>>
    /\ refilteredRows = <<>>
    /\ visibleRows = <<>>
    /\ statuses = <<>>
    /\ NoPageState
    /\ pc = "load"

\* SOURCE_DATA = PALLET_ITEMS.map(...), once at module load
LoadDataset ==
    /\ pc = "load"
    /\ SOURCE_DATA' = Normalize(PALLET_ITEMS)
    /\ pc' = "ready"
    /\ UNCHANGED <<PALLET_ITEMS, now, variant, filters, sort, filteredRows,
                   refilteredRows, visibleRows, statuses, pageVars>>

NextNormalize == LoadDataset

SpecNormalize == InitNormalize /\ [][NextNormalize]_vars

\* C10: the stable key is unique across the dataset: no two distinct records
\* get the same stableKey.
C10_StableKeyUnique ==
    pc = "ready" =>
        \A i, j \in 1..Len(SOURCE_DATA) :
            (i # j /\ PALLET_ITEMS[i] # PALLET_ITEMS[j])
            => SOURCE_DATA[i].stableKey # SOURCE_DATA[j].stableKey

-----------------------------------------------------------------------------
(* KPI totals of layout.tsx *)

\* row.line_weight_kg ?? 0
weightOf(row) == IF Has(row, "line_weight_kg") THEN row.line_weight_kg ELSE 0

\* (part / totalKg) * 100 as the exact fraction num / den, 0 when totalKg is
\* not positive
percentOf(part, totalKg) ==
    IF totalKg > 0 THEN [num |-> part * 100, den |-> totalKg]
                   ELSE [num |-> 0, den |-> 1]

\* kpis whose 7-day sum does not look at the allocation flag
kpis_WindowIgnoresAllocation(rows, allocated, nowTime) ==
    LET horizon == addUTCDate(nowTime, 7)
        acc[i \in 0..Len(rows)] ==
            IF i = 0
            THEN [totalKg |-> 0, preAllocatedKg |-> 0, unallocatedKg7d |-> 0]
            ELSE LET row == rows[i]
                     weight == weightOf(row)
                     rowPreAllocated == isRowPreAllocated(allocated, row)
                     etaTime == row.etaDate
                 IN  [totalKg |-> acc[i - 1].totalKg + weight,
                      preAllocatedKg |-> acc[i - 1].preAllocatedKg
                          + (IF rowPreAllocated THEN weight ELSE 0),
                      unallocatedKg7d |-> acc[i - 1].unallocatedKg7d
                          + (IF /\ ~IsNaN(etaTime)
                                /\ NumGt(etaTime, nowTime)
                                /\ NumLe(etaTime, horizon)
                             THEN weight ELSE 0)]
        sums == acc[Len(rows)]
    IN  [totalKg |-> sums.totalKg,
         preAllocatedKg |-> sums.preAllocatedKg,
         unallocatedKg7d |-> sums.unallocatedKg7d,
         pctPreAllocated |-> percentOf(sums.preAllocatedKg, sums.totalKg),
         pctUnallocated7d |-> percentOf(sums.unallocatedKg7d, sums.totalKg)]

\* kpis that leave the row at an unparseable eta before adding its weight to
\* the pre-allocated sum
kpis_EarlyReturn(rows, allocated, nowTime) ==
    LET horizon == addUTCDate(nowTime, 7)
        acc[i \in 0..Len(rows)] ==
            IF i = 0
            THEN [totalKg |-> 0, preAllocatedKg |-> 0, unallocatedKg7d |-> 0]
            ELSE LET row == rows[i]
                     weight == weightOf(row)
                     rowPreAllocated == isRowPreAllocated(allocated, row)
                     etaTime == row.etaDate
                 IN  [totalKg |-> acc[i - 1].totalKg + weight,
                      preAllocatedKg |-> acc[i - 1].preAllocatedKg
                          + (IF ~IsNaN(etaTime) /\ rowPreAllocated
                             THEN weight ELSE 0),
                      unallocatedKg7d |-> acc[i - 1].unallocatedKg7d
                          + (IF /\ ~IsNaN(etaTime)
                                /\ ~rowPreAllocated
                                /\ NumGt(etaTime, nowTime)
                                /\ NumLe(etaTime, horizon)
                             THEN weight ELSE 0)]
        sums == acc[Len(rows)]
    IN  [totalKg |-> sums.totalKg,
         preAllocatedKg |-> sums.preAllocatedKg,
         unallocatedKg7d |-> sums.unallocatedKg7d,
         pctPreAllocated |-> percentOf(sums.preAllocatedKg, sums.totalKg),
         pctUnallocated7d |-> percentOf(sums.unallocatedKg7d, sums.totalKg)]

\* The kpis memo: one pass over the visible rows
\* kpis that stops at the first row with an unparseable eta, as a loop left
\* by break would: the rows after it are not counted
kpis_StopsAtUnparseable(rows, allocated, nowTime) ==
    LET horizon == addUTCDate(nowTime, 7)
        counted == {i \in 1..Len(rows) :
                       \A j \in 1..(i - 1) : ~IsNaN(rows[j].etaDate)}
        acc[i \in 0..Len(rows)] ==
            IF i = 0
            THEN [totalKg |-> 0, preAllocatedKg |-> 0, unallocatedKg7d |-> 0]
            ELSE IF i \notin counted THEN acc[i - 1]
            ELSE LET row == rows[i]
                     weight == weightOf(row)
                     rowPreAllocated == isRowPreAllocated(allocated, row)
                     etaTime == row.etaDate
                 IN  [totalKg |-> acc[i - 1].totalKg + weight,
                      preAllocatedKg |-> acc[i - 1].preAllocatedKg
                          + (IF rowPreAllocated THEN weight ELSE 0),
                      unallocatedKg7d |-> acc[i - 1].unallocatedKg7d
                          + (IF /\ ~IsNaN(etaTime)
                                /\ ~rowPreAllocated
                                /\ NumGt(etaTime, nowTime)
                                /\ NumLe(etaTime, horizon)
                             THEN weight ELSE 0)]
        sums == acc[Len(rows)]
    IN  [totalKg |-> sums.totalKg,
         preAllocatedKg |-> sums.preAllocatedKg,
         unallocatedKg7d |-> sums.unallocatedKg7d,
         pctPreAllocated |-> percentOf(sums.preAllocatedKg, sums.totalKg),
         pctUnallocated7d |-> percentOf(sums.unallocatedKg7d, sums.totalKg)]

kpis(rows, allocated, nowTime) ==
    LET horizon == addUTCDate(nowTime, 7)
        acc[i \in 0..Len(rows)] ==
            IF i = 0
            THEN [totalKg |-> 0, preAllocatedKg |-> 0, unallocatedKg7d |-> 0]
            ELSE LET row == rows[i]
                     weight == weightOf(row)
                     rowPreAllocated == isRowPreAllocated(allocated, row)
                     etaTime == row.etaDate
                 IN  [totalKg |-> acc[i - 1].totalKg + weight,
                      preAllocatedKg |-> acc[i - 1].preAllocatedKg
                          + (IF rowPreAllocated THEN weight ELSE 0),
                      unallocatedKg7d |-> acc[i - 1].unallocatedKg7d
                          + (IF /\ ~IsNaN(etaTime)
                                /\ ~rowPreAllocated
                                /\ NumGt(etaTime, nowTime)
                                /\ NumLe(etaTime, horizon)
                             THEN weight ELSE 0)]
        sums == acc[Len(rows)]
    IN  [totalKg |-> sums.totalKg,
         preAllocatedKg |-> sums.preAllocatedKg,
         unallocatedKg7d |-> sums.unallocatedKg7d,
         pctPreAllocated |-> percentOf(sums.preAllocatedKg, sums.totalKg),
         pctUnallocated7d |-> percentOf(sums.unallocatedKg7d, sums.totalKg)]

\* visibleCounts: the number of rows, of distinct container ids (a missing
\* id is the one value undefined) and of distinct shipment ids
visibleCounts(rows) ==
    [rows |-> Len(rows),
     containers |-> Cardinality({IF Has(rows[i], "container_id")
                                 THEN <<rows[i].container_id>> ELSE <<>> :
                                 i \in 1..Len(rows)}),
     shipments |-> Cardinality({rows[i].shipment_id : i \in 1..Len(rows)})]

-----------------------------------------------------------------------------
(* The handlers of the layout.tsx page; every handler ends with the render  *)
(* that computes filteredRows and visibleRows anew                          *)

\* setFilters((prev) => ({ ...prev, [key]: value }))
handleFilterChange(key, value) ==
    /\ pc = "ready"
    /\ \E next \in {[filters EXCEPT ![key] = value]} :
          /\ filters' = next
          /\ \E rows \in {pageFilteredRows(next, preAllocated)} :
                /\ filteredRows' = rows
                /\ visibleRows' \in visibleOutcomes(rows,
                                      sessionMapOf(preAllocated, notes), sort)
    /\ UNCHANGED <<PALLET_ITEMS, SOURCE_DATA, now, variant, sort, refilteredRows,
                   statuses, preAllocated, notes, viewMode, badges, downloads,
                   csvValue, csvText, pc>>

\* An updater that stores true whatever the flag was
togglePreAllocated_SetsTrue(prev, key) ==
    [k \in DOMAIN prev \cup {key} |-> IF k = key THEN TRUE ELSE prev[k]]

\* The updater (prev) => ({ ...prev, [key]: !prev[key] })
togglePreAllocated(prev, key) ==
    [k \in DOMAIN prev \cup {key} |->
        IF k = key THEN ~flagOf(prev, key) ELSE prev[k]]

\* setPreAllocated(updater) for a row of the table
handleTogglePreAllocated(row) ==
    /\ pc = "ready"
    /\ \E next \in {togglePreAllocated(preAllocated, row.stableKey)} :
          /\ preAllocated' = next
          /\ \E rows \in {pageFilteredRows(filters, next)} :
                /\ filteredRows' = rows
                /\ visibleRows' \in visibleOutcomes(rows,
                                      sessionMapOf(next, notes), sort)
    /\ UNCHANGED <<PALLET_ITEMS, SOURCE_DATA, now, variant, filters, sort,
                   refilteredRows, statuses, notes, viewMode, badges, downloads,
                   csvValue, csvText, pc>>

\* The initial render of the page for a dataset and a reference time
InitPage(items, nowTime) ==
    /\ now = nowTime
    /\ PALLET_ITEMS \in Datasets(items, MaxRows)
    /\ SOURCE_DATA = Normalize(PALLET_ITEMS)
    /\ variant = "range"
    /\ filters = INITIAL_FILTERS
    /\ sort = <<>>
    /\ filteredRows = pageFilteredRows(filters, <<>>)
    /\ refilteredRows = <<>>
    /\ visibleRows = filteredRows
    /\ statuses = <<>>
    /\ NoPageState
    /\ pc = "ready"

-----------------------------------------------------------------------------
(* Specification SpecKpi: the KPI totals under filter changes, allocation   *)
(* toggles and sorts                                                        *)

\* eta at now, at the end of the 7-day window, just after it, and
\* unparseable; the weight 100, 250 or missing; one record of another
\* shipment and without a container id
KpiItems ==
    LET t == DateParse(FIXED_NOW_LAYOUT)
        item(eta, w) == [RawItem("Rotterdam", "Hass", "18", "4kg",
                                 IsoString(t - ONE_DAY_MS), eta)
                           EXCEPT !.line_weight_kg = w]
    IN  {item(IsoString(t), 100),
         item(IsoString(t + 7 * ONE_DAY_MS), 100),
         Without([item(IsoString(t + 7 * ONE_DAY_MS), 250)
                     EXCEPT !.shipment_id = "S2"], "container_id"),
         item(IsoString(t + 7 * ONE_DAY_MS + 1), 100),
         item(Malformed, 250),
         Without(item(IsoString(t + 7 * ONE_DAY_MS), 100), "line_weight_kg")}

InitKpi == InitPage(KpiItems, DateParse(FIXED_NOW_LAYOUT))

NextKpi ==
    \/ \E value \in BOOLEAN : handleFilterChange("nextArrivalsOnly", value)
    \/ \E value \in {"all", "pre", "not_pre"} :
          handleFilterChange("preAllocatedFilter", value)
    \/ \E i \in 1..Len(visibleRows) : handleTogglePreAllocated(visibleRows[i])
    \/ handleSort("pre_allocated")
    \/ clearAllFilters

SpecKpi == InitKpi /\ [][NextKpi]_vars

\* The summed weight of the rows at the positions idx, a missing weight
\* counted as 0
RECURSIVE SumKg(_, _)
SumKg(rows, idx) ==
    IF idx = {} THEN 0
    ELSE LET i == CHOOSE j \in idx : TRUE
         IN  (IF Has(rows[i], "line_weight_kg") THEN rows[i].line_weight_kg ELSE 0)
             + SumKg(rows, idx \ {i})

Allocated(row) == row.stableKey \in DOMAIN preAllocated /\ preAllocated[row.stableKey]

\* C14: over the visible rows, totalKg is the sum of line_weight_kg (a missing
\* weight counted as 0), preAllocatedKg that sum over the rows whose
\* allocation flag is true, unallocatedKg7d that sum over the unallocated rows
\* with now < eta <= now + 7 days; each percentage is 100 * part / totalKg,
\* and 0 when totalKg is 0.
C14_KpiTotals ==
    LET k == kpis(visibleRows, preAllocated, now)
        all == 1..Len(visibleRows)
        pre == {i \in all : Allocated(visibleRows[i])}
        un7 == {i \in all : ~Allocated(visibleRows[i])
                            /\ InNextSevenDays(visibleRows[i])}
        total == SumKg(visibleRows, all)
    IN  /\ k.totalKg = total
        /\ k.preAllocatedKg = SumKg(visibleRows, pre)
        /\ k.unallocatedKg7d = SumKg(visibleRows, un7)
        /\ IF total = 0
           THEN k.pctPreAllocated.num = 0 /\ k.pctUnallocated7d.num = 0
           ELSE /\ k.pctPreAllocated.num * total
                      = 100 * SumKg(visibleRows, pre) * k.pctPreAllocated.den
                /\ k.pctUnallocated7d.num * total
                      = 100 * SumKg(visibleRows, un7) * k.pctUnallocated7d.den

\* Two rows are visible, one allocated and one unallocated at the end of the
\* 7-day window, and each enters its own sum
C14_Witness ==
    LET k == kpis(visibleRows, preAllocated, now)
    IN  /\ Len(visibleRows) = 2
        /\ k.totalKg = 350
        /\ k.preAllocatedKg = 100
        /\ k.unallocatedKg7d = 250
        /\ \E i \in 1..2 : visibleRows[i].etaDate = now + 7 * ONE_DAY_MS

\* C15: for every visible row set and every allocation map, preAllocatedKg
\* plus the summed weight of the visible unallocated rows equals totalKg.
C15_AllocatedPlusUnallocated ==
    LET k == kpis(visibleRows, preAllocated, now)
        unallocated == {i \in 1..Len(visibleRows) : ~Allocated(visibleRows[i])}
    IN  k.preAllocatedKg + SumKg(visibleRows, unallocated) = k.totalKg

\* After toggles, an allocated row with an unparseable eta and an unallocated
\* row are visible, and a row has been toggled back to unallocated
C15_Witness ==
    /\ Len(visibleRows) = 2
    /\ \E i, j \in 1..2 :
          /\ Allocated(visibleRows[i]) /\ IsNaN(visibleRows[i].etaDate)
          /\ visibleRows[j].stableKey \in DOMAIN preAllocated
          /\ ~Allocated(visibleRows[j])
    /\ kpis(visibleRows, preAllocated, now).preAllocatedKg > 0

\* The rows of seq at the positions idx, in the order of seq
RowsAt(seq, idx) == SelectSeq([i \in 1..Len(seq) |-> <<i, seq[i]>>],
                              LAMBDA p : p[1] \in idx)

\* C21: the allocation filter restricts the data-filtered rows by tri-state:
\* "all" keeps every row, "pre" exactly the rows whose allocation flag is
\* true, "not_pre" exactly the rows whose flag is false or unset; the "pre"
\* and "not_pre" results are disjoint and together hold every row of the
\* "all" result, in the same relative order.
C21_AllocationFilterTriState ==
    LET data == filterRows(variant, SOURCE_DATA, dataFilters(filters), now)
        all == pageFilteredRows([filters EXCEPT !.preAllocatedFilter = "all"],
                                preAllocated)
        pre == pageFilteredRows([filters EXCEPT !.preAllocatedFilter = "pre"],
                                preAllocated)
        notPre == pageFilteredRows(
                      [filters EXCEPT !.preAllocatedFilter = "not_pre"],
                      preAllocated)
        flagged == {i \in 1..Len(data) :
                       /\ data[i].stableKey \in DOMAIN preAllocated
                       /\ preAllocated[data[i].stableKey] = TRUE}
        positions(seq) == [i \in 1..Len(seq) |-> seq[i][1]]
        rowsOf(seq) == [i \in 1..Len(seq) |-> seq[i][2]]
    IN  /\ all = data
        /\ pre = rowsOf(RowsAt(data, flagged))
        /\ notPre = rowsOf(RowsAt(data, (1..Len(data)) \ flagged))
        /\ \A i \in 1..Len(pre) : ~InSeq(pre[i], notPre)
        /\ Len(pre) + Len(notPre) = Len(all)
        /\ \A i \in 1..Len(all) : InSeq(all[i], pre) \/ InSeq(all[i], notPre)
        /\ IsSubsequence(pre, all) /\ IsSubsequence(notPre, all)
        /\ filteredRows =
              CASE filters.preAllocatedFilter = "pre" -> pre
                [] filters.preAllocatedFilter = "not_pre" -> notPre
                [] OTHER -> all

\* The filter is on "not_pre" with two data-filtered rows, one allocated and
\* one that has never been toggled: only the second is kept
C21_Witness ==
    LET data == filterRows(variant, SOURCE_DATA, dataFilters(filters), now)
    IN  /\ filters.preAllocatedFilter = "not_pre"
        /\ Len(data) = 2
        /\ Len(filteredRows) = 1
        /\ filteredRows[1].stableKey \notin DOMAIN preAllocated
        /\ \E i \in 1..2 : isRowPreAllocated(preAllocated, data[i])

\* The sort columns of layout.tsx with a numeric comparable value
NumericColumns ==
    {"days_to_arrival", "pre_allocated", "box_count", "box_weight_kg",
     "line_weight_kg"}

\* C30: the KPI totals and the visible counts do not depend on the sort
\* spec: for the criteria and the allocation map of the state, totalKg,
\* preAllocatedKg, unallocatedKg7d and the row, container and shipment counts
\* over the sorted visible rows equal those over the filtered, unsorted rows,
\* for every sort column and direction; and unallocatedKg7d + preAllocatedKg
\* never exceeds totalKg (the weights are non-negative).
C30_KpisIgnoreSort ==
    LET totals(rows) ==
            LET k == kpis(rows, preAllocated, now)
            IN  <<k.totalKg, k.preAllocatedKg, k.unallocatedKg7d,
                  visibleCounts(rows)>>
        base == totals(filteredRows)
    IN  /\ totals(visibleRows) = base
        /\ \A column \in NumericColumns, direction \in {"asc", "desc"} :
              \A sorted \in sortOutcomes(filteredRows, preAllocated,
                                         [column |-> column,
                                          direction |-> direction]) :
                  totals(sorted) = base
        /\ base[3] + base[2] <= base[1]

\* Two rows of different weight, shipment and container, one of them
\* allocated, are shown in another order than the filtered one
C30_Witness ==
    /\ sort # <<>>
    /\ Len(filteredRows) = 2
    /\ visibleRows = Reverse(filteredRows)
    /\ visibleCounts(visibleRows) = [rows |-> 2, containers |-> 2, shipments |-> 2]
    /\ kpis(visibleRows, preAllocated, now).totalKg = 350
    /\ kpis(visibleRows, preAllocated, now).preAllocatedKg = 100
    /\ kpis(visibleRows, preAllocated, now).unallocatedKg7d = 250

-----------------------------------------------------------------------------
(* Arrival summary of layout.tsx *)

\* The port names of the model in the order of localeCompare; they are
\* capitalised ASCII names, which every locale orders alike
LocaleOrder == <<"Algeciras", "Rotterdam", "Valencia">>

\* a.localeCompare(b): negative, 0 or positive
localeCompare(a, b) ==
    LET rank(name) == CHOOSE k \in 1..Len(LocaleOrder) : LocaleOrder[k] = name
    IN  rank(a) - rank(b)

\* One step of filteredRows.forEach: the groups of the Map in insertion
\* order, after the row.  The key `${port_destination}__${daysToArrival}` is
\* the pair of the two; a NaN day count prints as "NaN" and equals itself.
\* A row is left out when diffMs <= 0 or daysToArrival < 1; both tests are
\* false for NaN.
addToGroups(groups, row, nowTime) ==
    LET diffMs == NumMinus(row.etaDate, nowTime)
        daysToArrival == roundDays(diffMs)
        hit == {k \in 1..Len(groups) :
                   /\ groups[k].port_destination = row.port_destination
                   /\ groups[k].daysToArrival = daysToArrival}
        containers == IF Has(row, "container_id") /\ row.container_id # ""
                      THEN {row.container_id} ELSE {}
        shipments == IF row.shipment_id # "" THEN {row.shipment_id} ELSE {}
    IN  IF NumLe(diffMs, 0) THEN groups
        ELSE IF NumLt(daysToArrival, 1) THEN groups
        ELSE IF hit = {}
        THEN Append(groups, [port_destination |-> row.port_destination,
                             daysToArrival |-> daysToArrival,
                             totalKg |-> weightOf(row),
                             containers |-> containers,
                             shipments |-> shipments,
                             lines |-> 1])
        ELSE [k \in 1..Len(groups) |->
                 IF k \in hit
                 THEN [groups[k] EXCEPT
                          !.totalKg = @ + weightOf(row),
                          !.containers = @ \cup containers,
                          !.shipments = @ \cup shipments,
                          !.lines = @ + 1]
                 ELSE groups[k]]

\* The groups of the Map after filteredRows.forEach
RECURSIVE groupRows(_, _, _)
groupRows(rows, n, nowTime) ==
    IF n = 0 THEN <<>>
    ELSE addToGroups(groupRows(rows, n - 1, nowTime), rows[n], nowTime)

\* The comparator of groups.sort.  With a NaN day count the two day counts
\* are !== and the difference returned is NaN, which sort reads as +0.
compareGroups(a, b) ==
    IF ~NumEq(a.daysToArrival, b.daysToArrival)
    THEN (IF IsNaN(NumMinus(a.daysToArrival, b.daysToArrival))
          THEN 0 ELSE a.daysToArrival - b.daysToArrival)
    ELSE localeCompare(a.port_destination, b.port_destination)

\* groups.sort(comparator): the stable sorted order with a consistent
\* comparator, any order otherwise (implementation-defined)
sortedGroups(groups) ==
    UNION {
        LET n == Len(groups)
            sortedStable(f) ==
                \A i, j \in 1..n : i < j =>
                    \/ c[f[i]][f[j]] < 0
                    \/ (c[f[i]][f[j]] = 0 /\ f[i] < f[j])
            orders == IF ConsistentTable(c, n)
                      THEN {f \in Orders(n) : sortedStable(f)}
                      ELSE Orders(n)
        IN  {[i \in 1..n |-> groups[f[i]]] : f \in orders}
        : c \in {[i \in 1..Len(groups) |-> [j \in 1..Len(groups) |->
                     compareGroups(groups[i], groups[j])]]}}

\* groups.reduce((sum, group) => sum + group.totalKg, 0)
RECURSIVE sumTotalKg(_, _)
sumTotalKg(groups, n) ==
    IF n = 0 THEN 0 ELSE sumTotalKg(groups, n - 1) + groups[n].totalKg

\* The values the arrivalsSummary memo can take for the filtered rows
arrivalsSummary(rows, nowTime) ==
    UNION {
        {[groups |-> [i \in 1..Len(sorted) |->
                         [port_destination |-> sorted[i].port_destination,
                          daysToArrival |-> sorted[i].daysToArrival,
                          totalKg |-> sorted[i].totalKg,
                          containers |-> Cardinality(sorted[i].containers),
                          shipments |-> Cardinality(sorted[i].shipments),
                          lines |-> sorted[i].lines]],
          totals |-> [groups |-> Len(sorted),
                      totalKg |-> sumTotalKg(sorted, Len(sorted)),
                      containers |-> Cardinality(UNION {map[k].containers :
                                                        k \in 1..Len(map)}),
                      shipments |-> Cardinality(UNION {map[k].shipments :
                                                       k \in 1..Len(map)})]] :
            sorted \in sortedGroups(map)}
        : map \in {groupRows(rows, Len(rows), nowTime)}}

-----------------------------------------------------------------------------
(* Specification SpecSummary: the arrival summary under filter changes *)

HalfDayMs == 12 * 60 * 60 * 1000

\* eta at now, just under and at half a day after it (0 and 1 day to
\* arrival), one and two days after it, and unparseable; two ports; one
\* record without a weight
SummaryItems ==
    LET t == DateParse(FIXED_NOW_LAYOUT)
        full == {RawItem(port, "Hass", "18", "4kg", IsoString(t - ONE_DAY_MS), eta) :
                    port \in {"Rotterdam", "Algeciras"},
                    eta \in DateStrings(t, {0, HalfDayMs - 1, HalfDayMs,
                                            ONE_DAY_MS, 2 * ONE_DAY_MS})}
    IN  full \cup {Without(RawItem("Rotterdam", "Hass", "18", "4kg",
                                   IsoString(t - ONE_DAY_MS),
                                   IsoString(t + ONE_DAY_MS)), "line_weight_kg")}

InitSummary == InitPage(SummaryItems, DateParse(FIXED_NOW_LAYOUT))

NextSummary ==
    \/ \E value \in {"", "Rotterdam"} : handleFilterChange("port", value)
    \/ \E value \in BOOLEAN : handleFilterChange("nextArrivalsOnly", value)
    \/ clearAllFilters

SpecSummary == InitSummary /\ [][NextSummary]_vars

\* round((eta - now) / 1 day) >= 1
ArrivesInDays(row) ==
    /\ ~IsNaN(row.etaDate)
    /\ (row.etaDate - now + (ONE_DAY_MS \div 2)) \div ONE_DAY_MS >= 1

\* C16: a filtered row is counted in a group of the arrival summary iff
\* round((eta - now) / 1 day) >= 1: every group holds the lines and the
\* weight of exactly those rows of its port and day count, the group weights
\* (and totals.totalKg) sum to the weight of exactly those rows, the line
\* counts sum to their number, and no row with eta <= now is in any group.
C16_SummaryCountsArrivingRows ==
    \A summary \in arrivalsSummary(filteredRows, now) :
        LET groups == summary.groups
            counted == {i \in 1..Len(filteredRows) : ArrivesInDays(filteredRows[i])}
            rowsOf(g) == {i \in counted :
                /\ filteredRows[i].port_destination = g.port_destination
                /\ (filteredRows[i].etaDate - now + (ONE_DAY_MS \div 2))
                       \div ONE_DAY_MS = g.daysToArrival}
        IN  /\ \A k \in 1..Len(groups) :
                  /\ groups[k].lines = Cardinality(rowsOf(groups[k]))
                  /\ groups[k].totalKg = SumKg(filteredRows, rowsOf(groups[k]))
            /\ \A i \in counted : \E k \in 1..Len(groups) : i \in rowsOf(groups[k])
            /\ sumTotalKg(groups, Len(groups)) = SumKg(filteredRows, counted)
            /\ summary.totals.totalKg = SumKg(filteredRows, counted)
            /\ \A i \in 1..Len(filteredRows) :
                  (~IsNaN(filteredRows[i].etaDate) /\ filteredRows[i].etaDate <= now)
                  => i \notin counted

\* The row lists that hold the rows of seq in some order
RowOrders(seq) == {[i \in 1..Len(seq) |-> seq[f[i]]] : f \in Orders(Len(seq))}

\* C17: the groups of the arrival summary are one per distinct (destination
\* port, days-to-arrival) pair, ordered by days-to-arrival ascending and, for
\* equal days, by port name ascending; the emitted order is the same for
\* every order of the filtered rows.
C17_GroupsOrdered ==
    \A summary \in arrivalsSummary(filteredRows, now) :
        LET groups == summary.groups
        IN  /\ \A i, j \in 1..Len(groups) : i < j =>
                  \/ NumLt(groups[i].daysToArrival, groups[j].daysToArrival)
                  \/ /\ NumEq(groups[i].daysToArrival, groups[j].daysToArrival)
                     /\ localeCompare(groups[i].port_destination,
                                      groups[j].port_destination) < 0
            /\ \A rows \in RowOrders(filteredRows) :
                  \A other \in arrivalsSummary(rows, now) :
                      [k \in 1..Len(other.groups) |->
                          <<other.groups[k].port_destination,
                            other.groups[k].daysToArrival>>]
                      = [k \in 1..Len(groups) |->
                          <<groups[k].port_destination, groups[k].daysToArrival>>]

-----------------------------------------------------------------------------
(* CSV export *)

\* A text is a sequence of pieces: the characters comma, double quote and
\* newline, and runs of other characters, each run one piece
Comma == ","
Quote == "\""
Newline == "\n"

\* text.replace(/"/g, '""')
RECURSIVE replaceQuotes(_)
replaceQuotes(text) ==
    IF text = <<>> THEN <<>>
    ELSE (IF Head(text) = Quote THEN <<Quote, Quote>> ELSE <<Head(text)>>)
         \o replaceQuotes(Tail(text))

\* text.includes(piece)
includesPiece(text, piece) == \E i \in 1..Len(text) : text[i] = piece

\* escapeCsv that wraps the text in quotes and leaves its quotes single
escapeCsv_NoDoubling(text) ==
    IF includesPiece(text, Comma) \/ includesPiece(text, Quote)
          \/ includesPiece(text, Newline)
    THEN <<Quote>> \o text \o <<Quote>>
    ELSE text

\* escapeCsv on the text `${value ?? ""}` of the value
escapeCsv(text) ==
    IF includesPiece(text, Comma) \/ includesPiece(text, Quote)
          \/ includesPiece(text, Newline)
    THEN <<Quote>> \o replaceQuotes(text) \o <<Quote>>
    ELSE text

\* `${value ?? ""}` for a string of the model (it holds no comma, quote or
\* newline), for a number and for an optional number
PlainText(string) == IF string = "" THEN <<>> ELSE <<string>>

NumberText(number) == IF IsNaN(number) THEN <<"NaN">> ELSE <<ToString(number)>>

OptionalNumberText(row, field) ==
    IF Has(row, field) THEN NumberText(row[field]) ELSE <<>>

\* COLUMNS of layout.tsx
COLUMNS ==
    <<[key |-> "port_destination", label |-> "Port"],
      [key |-> "days_to_arrival", label |-> "Days to arrival"],
      [key |-> "variety", label |-> "Variety"],
      [key |-> "caliber_raw", label |-> "Caliber"],
      [key |-> "pack_format_raw", label |-> "Pack format"],
      [key |-> "box_count", label |-> "Boxes"],
      [key |-> "box_weight_kg", label |-> "Box weight (kg)"],
      [key |-> "line_weight_kg", label |-> "Line weight (kg)"],
      [key |-> "status", label |-> "Status"],
      [key |-> "pre_allocated", label |-> "Pre-allocated"],
      [key |-> "pallet_pl_id", label |-> "Pallet PL ID"]>>

\* array.join(separator) on texts
RECURSIVE join(_, _)
join(texts, separator) ==
    IF texts = <<>> THEN <<>>
    ELSE IF Len(texts) = 1 THEN texts[1]
    ELSE texts[1] \o <<separator>> \o join(Tail(texts), separator)

\* The array of one row in handleExportCsv, before .map(escapeCsv); the
\* pallet_pl_id of a row is a text
exportCells(row, allocated, nowTime) ==
    <<PlainText(row.port_destination),
      NumberText(getDaysToArrival(row)),
      PlainText(row.variety),
      PlainText(row.caliber_raw),
      PlainText(row.pack_format_raw),
      OptionalNumberText(row, "box_count"),
      OptionalNumberText(row, "box_weight_kg"),
      OptionalNumberText(row, "line_weight_kg"),
      PlainText(computeStatus(row, nowTime)),
      PlainText(IF isRowPreAllocated(allocated, row) THEN "true" ELSE "false"),
      IF Has(row, "pallet_pl_id") THEN row.pallet_pl_id ELSE <<>>>>

\* csvContent with the fields joined as they are, not escaped
csvContent_Unescaped(rows, allocated, nowTime) ==
    LET header == [c \in 1..Len(COLUMNS) |-> PlainText(COLUMNS[c].label)]
        lines == [i \in 1..Len(rows) |->
                     join(exportCells(rows[i], allocated, nowTime), Comma)]
    IN  join(<<join(header, Comma)>> \o lines, Newline)

\* csvContent of handleExportCsv
csvContent(rows, allocated, nowTime) ==
    LET header == [c \in 1..Len(COLUMNS) |-> PlainText(COLUMNS[c].label)]
        escaped(cells) == [c \in 1..Len(cells) |-> escapeCsv(cells[c])]
        lines == [i \in 1..Len(rows) |->
                     join(escaped(exportCells(rows[i], allocated, nowTime)), Comma)]
    IN  join(<<join(escaped(header), Comma)>> \o lines, Newline)

\* The export button.  With no visible row nothing happens; otherwise the
\* file is handed to the browser.  The model follows the page up to its
\* first file.
handleExportCsv ==
    /\ pc = "ready"
    /\ IF Len(visibleRows) = 0
       THEN UNCHANGED <<downloads, pc>>
       ELSE /\ downloads' = Append(downloads,
                                   csvContent(visibleRows, preAllocated, now))
            /\ pc' = "exported"
    /\ UNCHANGED <<PALLET_ITEMS, SOURCE_DATA, now, variant, filters, sort,
                   filteredRows, refilteredRows, visibleRows, statuses,
                   preAllocated, notes, viewMode, badges, csvValue, csvText>>

\* The positions of a set in ascending order
Ascending(positions) ==
    [k \in 1..Cardinality(positions) |->
        CHOOSE p \in positions : Cardinality({q \in positions : q < p}) = k - 1]

\* The pieces of text between the separators (positions of text, ascending)
SplitAt(text, separators) ==
    LET cuts == <<0>> \o Ascending(separators) \o <<Len(text) + 1>>
    IN  [k \in 1..(Len(cuts) - 1) |-> SubSeq(text, cuts[k] + 1, cuts[k + 1] - 1)]

\* A piece stands outside quotes when an even number of quotes precedes it
OutsideQuotes(text, i) ==
    Cardinality({j \in 1..(i - 1) : text[j] = Quote}) % 2 = 0

\* The records of a CSV text by the quoting rule: outside quotes a newline
\* ends the record and a comma the field, inside quotes they are content; a
\* field that starts with a quote loses its first and its last quote, and of
\* every two quotes inside it one is kept
RecordsOf(text) ==
    LET lines == SplitAt(text, {i \in 1..Len(text) :
                                  text[i] = Newline /\ OutsideQuotes(text, i)})
        fieldsOf(line) ==
            LET raw == SplitAt(line, {i \in 1..Len(line) :
                                        line[i] = Comma /\ OutsideQuotes(line, i)})
            IN  [k \in 1..Len(raw) |->
                    IF raw[k] = <<>> \/ raw[k][1] # Quote THEN raw[k]
                    ELSE LET inner == SubSeq(raw[k], 2, Len(raw[k]) - 1)
                             kept == Ascending({j \in 1..Len(inner) :
                                 \/ inner[j] # Quote
                                 \/ Cardinality({q \in 1..(j - 1) :
                                                   inner[q] = Quote}) % 2 = 1})
                         IN  [j \in 1..Len(kept) |-> inner[kept[j]]]]
    IN  [r \in 1..Len(lines) |-> fieldsOf(lines[r])]

-----------------------------------------------------------------------------
(* Specification SpecCsv: escapeCsv on short texts *)

\* The texts of at most n pieces
Texts(n) == UNION {[1..k -> {"a", Comma, Quote, Newline}] : k \in 0..n}

\* Acme, "Fresh"
AcmeFresh == <<"Acme", Comma, " ", Quote, "Fresh", Quote>>

InitCsv ==
    /\ now = DateParse(FIXED_NOW_LAYOUT)
    /\ PALLET_ITEMS = <<>>
    /\ SOURCE_DATA = <<>>
    /\ variant = "range"
    /\ filters = INITIAL_FILTERS
    /\ sort = <<>>
    /\ filteredRows = <<>>
    /\ refilteredRows = <<>>
    /\ visibleRows = <<>>
    /\ statuses = <<>>
    /\ preAllocated = <<>>
    /\ notes = <<>>
    /\ viewMode = "lines"
    /\ badges = <<>>
    /\ downloads = <<>>
    /\ csvValue \in Texts(MaxLen) \cup {AcmeFresh}
    /\ csvText = <<>>
    /\ pc = "ready"

\* escapeCsv(value)
EscapeField ==
    /\ csvText = <<>>
    /\ csvText' = <<escapeCsv(csvValue)>>
    /\ UNCHANGED <<PALLET_ITEMS, SOURCE_DATA, now, variant, filters, sort,
                   filteredRows, refilteredRows, visibleRows, statuses,
                   preAllocated, notes, viewMode, badges, downloads, csvValue, pc>>

NextCsv == EscapeField

SpecCsv == InitCsv /\ [][NextCsv]_vars

\* The number of quotes in a text
RECURSIVE CountQuotes(_)
CountQuotes(text) ==
    IF text = <<>> THEN 0
    ELSE (IF Head(text) = Quote THEN 1 ELSE 0) + CountQuotes(Tail(text))

\* C18: escapeCsv wraps a field in double quotes, with every double quote
\* inside it doubled, iff the field holds a comma, a double quote or a
\* newline, and returns it unchanged otherwise; read back by the CSV quoting
\* rule the result is one field, the original text.
C18_EscapeRoundTrip ==
    csvText # <<>> =>
        LET out == csvText[1]
            special == \E i \in 1..Len(csvValue) :
                           csvValue[i] \in {Comma, Quote, Newline}
        IN  /\ special =>
                  /\ Len(out) = Len(csvValue) + CountQuotes(csvValue) + 2
                  /\ out[1] = Quote
                  /\ out[Len(out)] = Quote
                  /\ CountQuotes(out) = 2 * CountQuotes(csvValue) + 2
            /\ ~special => out = csvValue
            /\ RecordsOf(out) = <<<<csvValue>>>>

\* Acme, "Fresh" has been escaped to "Acme, ""Fresh"""
C18_Witness ==
    /\ csvValue = AcmeFresh
    /\ csvText = <<<<Quote, "Acme", Comma, " ", Quote, Quote, "Fresh",
                     Quote, Quote, Quote>>>>
    /\ RecordsOf(csvText[1]) = <<<<AcmeFresh>>>>

-----------------------------------------------------------------------------
(* Specification SpecExport: the export of the visible rows after sorts,    *)
(* allocation toggles and filter changes                                    *)

\* Records with and without a pallet id; a pallet id may hold a comma and
\* quotes, or a newline.  The eta is a day ahead or unparseable.
ExportItems ==
    LET t == DateParse(FIXED_NOW_LAYOUT)
        item(eta, w) == [RawItem("Rotterdam", "Hass", "18", "4kg",
                                 IsoString(t - ONE_DAY_MS), eta)
                           EXCEPT !.line_weight_kg = w]
        etas == {IsoString(t + ONE_DAY_MS), Malformed}
    IN  {item(eta, 100) : eta \in etas}
        \cup {item(eta, 250) @@ [pallet_pl_id |-> <<"PL-1">>] : eta \in etas}
        \cup {item(eta, 100) @@ [pallet_pl_id |-> AcmeFresh] : eta \in etas}
        \cup {item(eta, 250) @@ [pallet_pl_id |-> <<"A", Newline, "B">>] :
                 eta \in etas}

InitExport == InitPage(ExportItems, DateParse(FIXED_NOW_LAYOUT))

NextExport ==
    \/ handleSort("line_weight_kg")
    \/ \E i \in 1..Len(visibleRows) : handleTogglePreAllocated(visibleRows[i])
    \/ \E value \in {"all", "pre", "not_pre"} :
          handleFilterChange("preAllocatedFilter", value)
    \/ handleExportCsv

SpecExport == InitExport /\ [][NextExport]_vars

\* The text of the row in the column with the given key
ColumnText(row, key) ==
    CASE key = "days_to_arrival" ->
            IF IsNaN(row.etaDate) THEN <<"NaN">>
            ELSE <<ToString((row.etaDate - now + (ONE_DAY_MS \div 2))
                               \div ONE_DAY_MS)>>
      [] key = "status" -> <<computeStatus(row, now)>>
      [] key = "pre_allocated" ->
            IF row.stableKey \in DOMAIN preAllocated /\ preAllocated[row.stableKey]
            THEN <<"true">> ELSE <<"false">>
      [] key \in {"box_count", "box_weight_kg", "line_weight_kg"} ->
            IF key \in DOMAIN row THEN <<ToString(row[key])>> ELSE <<>>
      [] key = "pallet_pl_id" ->
            IF key \in DOMAIN row THEN row[key] ELSE <<>>
      [] OTHER -> IF row[key] = "" THEN <<>> ELSE <<row[key]>>

\* C19: the export produces a file only when the visible set is not empty;
\* the file then holds the header as its first record and after it one
\* record per visible row, in the visible (filtered and sorted) order, each
\* with one field per column of COLUMNS in the order of the header.  With an
\* empty visible set the export does nothing.
C19_ExportVisibleRows ==
    /\ (pc = "ready" \/ visibleRows = <<>>) => downloads = <<>>
    /\ downloads # <<>> =>
          /\ Len(downloads) = 1
          /\ \E records \in {RecordsOf(downloads[1])} :
                /\ Len(records) = 1 + Len(visibleRows)
                /\ records[1] = [c \in 1..Len(COLUMNS) |-> <<COLUMNS[c].label>>]
                /\ \A i \in 1..Len(visibleRows) :
                      records[i + 1] = [c \in 1..Len(COLUMNS) |->
                          ColumnText(visibleRows[i], COLUMNS[c].key)]

\* Two rows have been exported in the sorted order, which is not the
\* filtered order; one pallet id holds a newline and one a comma and quotes
C19_Witness ==
    /\ downloads # <<>>
    /\ sort # <<>>
    /\ Len(visibleRows) = 2
    /\ visibleRows # filteredRows
    /\ \E i, j \in 1..2 :
          /\ ColumnText(visibleRows[i], "pallet_pl_id") = AcmeFresh
          /\ ColumnText(visibleRows[j], "pallet_pl_id") = <<"A", Newline, "B">>
    /\ Len(RecordsOf(downloads[1])) = 3

-----------------------------------------------------------------------------
(* The reference time of the layout.tsx page *)

\* nowLabel = "As of 2025-11-09"
nowLabel == DateOnly(9)

\* C20: the reference time of every computation of the page (filtering,
\* status, days-to-arrival, KPIs, arrival summary, export) is one fixed
\* value, the documented 2025-11-09T00:00:00Z (FIXED_NOW_ISO), which is also
\* the day of the 'As of' label.
C20_ReferenceTimeDocumented ==
    /\ now = DateParse(FIXED_NOW_ISO)
    /\ now = DateParse(nowLabel)

-----------------------------------------------------------------------------
(* The page of src/unnamed/part_002 (zones, ports and notes) and the view   *)
(* switch of layout.tsx                                                     *)

\* ALL_PORTS = uniqueValues("port_destination"): the ports of the dataset,
\* each once, sorted by localeCompare
ALL_PORTS ==
    SelectSeq(LocaleOrder, LAMBDA port :
        \E i \in 1..Len(PALLET_ITEMS) : PALLET_ITEMS[i].port_destination = port)

\* portOptions: the ports offered by the port selector
portOptions ==
    IF filters.zone = "All" THEN ALL_PORTS ELSE ZONES[filters.zone]

\* handleZoneChange that keeps the port whatever the new zone is
handleZoneChange_KeepPort(rawValue) ==
    /\ pc = "ready"
    /\ \E value \in {IF rawValue = "" THEN "All" ELSE rawValue} :
          IF value # "All" /\ value \notin DOMAIN ZONES
          THEN /\ pc' = "fault"
               /\ UNCHANGED <<filters, filteredRows, visibleRows>>
          ELSE \E next \in {[filters EXCEPT !.zone = value]} :
                  /\ filters' = next
                  /\ \E rows \in {pageFilteredRows(next, preAllocated)} :
                        /\ filteredRows' = rows
                        /\ visibleRows' \in visibleOutcomes(rows,
                                      sessionMapOf(preAllocated, notes), sort)
                  /\ UNCHANGED pc
    /\ UNCHANGED <<PALLET_ITEMS, SOURCE_DATA, now, variant, sort, refilteredRows,
                   statuses, pageVars>>

\* The zone selector.  value = rawValue || "All"; for a zone other than "All"
\* the updater reads ZONES[value] and calls .map on it, which throws a
\* TypeError when value is no key of ZONES: the page fails and no state is
\* stored.  Otherwise the port is emptied when it is set and not among the
\* ports of the new zone, and the rows are computed anew.
handleZoneChange(rawValue) ==
    /\ pc = "ready"
    /\ \E value \in {IF rawValue = "" THEN "All" ELSE rawValue} :
          IF value # "All" /\ value \notin DOMAIN ZONES
          THEN /\ pc' = "fault"
               /\ UNCHANGED <<filters, filteredRows, visibleRows>>
          ELSE \E next \in {[filters EXCEPT
                               !.zone = value,
                               !.port = IF /\ value # "All"
                                           /\ filters.port # ""
                                           /\ ~includes(ZONES[value], filters.port)
                                        THEN "" ELSE filters.port]} :
                  /\ filters' = next
                  /\ \E rows \in {pageFilteredRows(next, preAllocated)} :
                        /\ filteredRows' = rows
                        /\ visibleRows' \in visibleOutcomes(rows,
                                      sessionMapOf(preAllocated, notes), sort)
                  /\ UNCHANGED pc
    /\ UNCHANGED <<PALLET_ITEMS, SOURCE_DATA, now, variant, sort, refilteredRows,
                   statuses, pageVars>>

\* setNotes((prev) => ({ ...prev, [key]: value })) for a row of the table
handleNotesChange(row, value) ==
    /\ pc = "ready"
    /\ \E next \in {[k \in DOMAIN notes \cup {row.stableKey} |->
                        IF k = row.stableKey THEN value ELSE notes[k]]} :
          /\ notes' = next
          /\ visibleRows' \in visibleOutcomes(filteredRows,
                                  sessionMapOf(preAllocated, next), sort)
    /\ UNCHANGED <<PALLET_ITEMS, SOURCE_DATA, now, variant, filters, sort,
                   filteredRows, refilteredRows, statuses, preAllocated,
                   viewMode, badges, downloads, csvValue, csvText, pc>>

\* The view toggle of layout.tsx: setViewMode(mode)
setViewMode(mode) ==
    /\ pc = "ready"
    /\ viewMode' = mode
    /\ UNCHANGED <<PALLET_ITEMS, SOURCE_DATA, now, variant, filters, sort,
                   filteredRows, refilteredRows, visibleRows, statuses,
                   preAllocated, notes, badges, downloads, csvValue, csvText, pc>>

\* The initial render of the page of src/unnamed/part_002
InitZonePage(items, nowTime) ==
    /\ now = nowTime
    /\ PALLET_ITEMS \in Datasets(items, MaxRows)
    /\ SOURCE_DATA = Normalize(PALLET_ITEMS)
    /\ variant = "zones"
    /\ filters = ZONE_INITIAL_FILTERS
    /\ sort = <<>>
    /\ filteredRows = pageFilteredRows(filters, <<>>)
    /\ refilteredRows = <<>>
    /\ visibleRows = filteredRows
    /\ statuses = <<>>
    /\ NoPageState
    /\ pc = "ready"

-----------------------------------------------------------------------------
(* Specification SpecSession: the session state of both pages under every  *)
(* handler                                                                  *)

\* A cargo for Rotterdam that arrives on day 13 and one for Algeciras that
\* arrives on day 22
SessionItems ==
    {RawItem("Rotterdam", "Hass", "18", "4kg",
             IsoString(8 * ONE_DAY_MS), IsoString(13 * ONE_DAY_MS)),
     RawItem("Algeciras", "Hass", "18", "4kg",
             IsoString(8 * ONE_DAY_MS), IsoString(22 * ONE_DAY_MS))}

\* The values the zone selector may hand over: no zone, the zones, and a key
\* that ZONES does not have
ZoneValues == {"", "All", "North", "South", "West"}

NoteValues == {"", "hold"}

InitSession ==
    \/ InitPage(SessionItems, DateParse(FIXED_NOW_LAYOUT))
    \/ InitZonePage(SessionItems, DateParse(FIXED_NOW_ISO))

NextSession ==
    \/ /\ variant = "range"
       /\ \E port \in {"", "Rotterdam", "Algeciras"} :
             handleFilterChange("port", port)
    \/ /\ variant = "range"
       /\ \E value \in {"all", "pre", "not_pre"} :
             handleFilterChange("preAllocatedFilter", value)
    \/ /\ variant = "range"
       /\ \E i \in 1..Len(visibleRows) : handleTogglePreAllocated(visibleRows[i])
    \/ /\ variant = "range"
       /\ \E mode \in {"lines", "summary"} : setViewMode(mode)
    \/ /\ variant = "range"
       /\ handleExportCsv
    \/ /\ variant = "zones"
       /\ \E i \in 0..Len(portOptions) :
             handleFilterChange("port", IF i = 0 THEN "" ELSE portOptions[i])
    \/ /\ variant = "zones"
       /\ \E rawValue \in ZoneValues : handleZoneChange(rawValue)
    \/ /\ variant = "zones"
       /\ \E i \in 1..Len(visibleRows), value \in NoteValues :
             handleNotesChange(visibleRows[i], value)
    \/ handleSort("eta")
    \/ clearAllFilters

SpecSession == InitSession /\ [][NextSession]_vars

\* C22: the session maps are never changed by the engine: every allocation
\* flag starts false and no note is written at the start; a filter edit, a
\* zone change, a sort click, a clear-all, a view switch or an export leaves
\* the allocation map and the notes map as they are; the allocation map
\* changes only in an allocation toggle of a row, the notes map only in a
\* note edit of a row.
C22_SessionMapsFrame ==
    /\ \A i \in 1..Len(SOURCE_DATA) :
          /\ ~isRowPreAllocated(preAllocated, SOURCE_DATA[i])
          /\ SOURCE_DATA[i].stableKey \notin DOMAIN notes
    /\ [][/\ (\/ \E port \in {"", "Rotterdam", "Algeciras", "Valencia"} :
                     handleFilterChange("port", port)
              \/ /\ variant = "range"
                 /\ \E value \in {"all", "pre", "not_pre"} :
                       handleFilterChange("preAllocatedFilter", value)
              \/ /\ variant = "zones"
                 /\ \E rawValue \in ZoneValues : handleZoneChange(rawValue)
              \/ handleSort("eta")
              \/ clearAllFilters
              \/ \E mode \in {"lines", "summary"} : setViewMode(mode)
              \/ handleExportCsv)
             => UNCHANGED <<preAllocated, notes>>
          /\ preAllocated' # preAllocated
             => \E i \in 1..Len(SOURCE_DATA) :
                   handleTogglePreAllocated(SOURCE_DATA[i])
          /\ notes' # notes
             => \E i \in 1..Len(SOURCE_DATA), value \in NoteValues :
                   handleNotesChange(SOURCE_DATA[i], value)]_vars

\* On the page of layout.tsx a row is allocated, then the port filter and the
\* sort are set, the view is switched and the rows are exported; on the page
\* of part_002 a note is written, then a zone and the sort are set
C22_Witness ==
    \/ /\ \E key \in DOMAIN preAllocated : preAllocated[key]
       /\ filters.port # ""
       /\ sort # <<>>
       /\ viewMode = "summary"
       /\ pc = "exported"
    \/ /\ \E key \in DOMAIN notes : notes[key] = "hold"
       /\ filters.zone = "South"
       /\ sort # <<>>

-----------------------------------------------------------------------------
(* Specification SpecWindows: the arrival-window buckets of                 *)
(* src/unnamed/part_000, with eta on both sides of every bucket bound       *)

\* eta before now, and around 1.5, 2.5, 6.5 and 7.5 days after now, where
\* the rounded day count steps to 2, 3, 7 and 8
WindowOffsets ==
    {0 - ONE_DAY_MS - (ONE_DAY_MS \div 2)}
    \cup UNION {{d * ONE_DAY_MS + (ONE_DAY_MS \div 2) - 1,
                 d * ONE_DAY_MS + (ONE_DAY_MS \div 2)} : d \in {1, 2, 6, 7}}

WindowItems ==
    LET t == DateParse(FIXED_NOW_ISO)
    IN  {RawItem("Rotterdam", "Hass", "18", "4kg", IsoString(t - ONE_DAY_MS), eta) :
            eta \in DateStrings(t, WindowOffsets)}
        \cup {RawItem("Algeciras", "Hass", "18", "4kg", IsoString(t - ONE_DAY_MS),
                      IsoString(t + 7 * ONE_DAY_MS))}

BucketCriteria ==
    [ports : {<<>>, <<"Rotterdam">>},
     varieties : {<<>>},
     calibers : {<<>>},
     packFormats : {<<>>},
     arrivalWindows : {<<>>, <<"gte_7">>, <<"lte_7">>, <<"lte_2">>, <<"lte_1">>,
                       <<"gte_7", "lte_2">>, <<"lte_1", "gte_7">>,
                       <<"lte_2", "lte_7">>},
     nextArrivalsOnly : BOOLEAN]

InitWindows ==
    /\ now = DateParse(FIXED_NOW_ISO)
    /\ PALLET_ITEMS \in Datasets(WindowItems, MaxRows)
    /\ SOURCE_DATA = Normalize(PALLET_ITEMS)
    /\ variant = "windows"
    /\ filters \in BucketCriteria
    /\ sort = <<>>
    /\ filteredRows = <<>>
    /\ refilteredRows = <<>>
    /\ visibleRows = <<>>
    /\ statuses = <<>>
    /\ NoPageState
    /\ pc = "ready"

SpecWindows == InitWindows /\ [][NextFilter]_vars

\* The row is in the bucket: its eta is parseable and (eta - now) / 1 day,
\* rounded to the nearest integer with a half rounded up, is >= 7 for gte_7
\* and <= 7, 2 or 1 for lte_7, lte_2, lte_1
InBucket(row, window) ==
    /\ ~IsNaN(row.etaDate)
    /\ LET diff == row.etaDate - now
           half == ONE_DAY_MS \div 2
       IN  CASE window = "gte_7" -> diff >= 6 * ONE_DAY_MS + half
             [] window = "lte_7" -> diff < 7 * ONE_DAY_MS + half
             [] window = "lte_2" -> diff < 2 * ONE_DAY_MS + half
             [] window = "lte_1" -> diff < ONE_DAY_MS + half

\* C23: in the bucketed-window variant, when arrivalWindows is non-empty a
\* row passes iff it passes the other criteria and its rounded day count
\* satisfies at least one requested bucket; when arrivalWindows is empty the
\* dimension does not restrict.
C23_ArrivalWindowBuckets ==
    HasFiltered =>
        LET others == filterRows(variant, SOURCE_DATA,
                                 [filters EXCEPT !.arrivalWindows = <<>>], now)
            windows == filters.arrivalWindows
        IN  \A i \in 1..Len(SOURCE_DATA) :
                InSeq(SOURCE_DATA[i], filteredRows)
                <=> /\ InSeq(SOURCE_DATA[i], others)
                    /\ \/ windows = <<>>
                       \/ \E k \in 1..Len(windows) :
                             InBucket(SOURCE_DATA[i], windows[k])

\* Under the buckets gte_7 and lte_2 a row with eta 6.5 days after now has
\* passed (its day count rounds to 7) and a row with eta 2.5 days after now
\* has been dropped (its day count rounds to 3)
C23_Witness ==
    /\ HasFiltered
    /\ filters.arrivalWindows = <<"gte_7", "lte_2">>
    /\ Len(SOURCE_DATA) = 2
    /\ SOURCE_DATA[1].etaDate = now + 6 * ONE_DAY_MS + (ONE_DAY_MS \div 2)
    /\ SOURCE_DATA[2].etaDate = now + 2 * ONE_DAY_MS + (ONE_DAY_MS \div 2)
    /\ filteredRows = <<SOURCE_DATA[1]>>

-----------------------------------------------------------------------------
(* The ETA badges of a table row *)

\* isEtaWithinSevenDays with diff >= 0 in the place of diff > 0
isEtaWithinSevenDays_FromNow(etaDate, nowTime) ==
    LET diff == NumMinus(etaDate, nowTime)
        sevenDaysMs == 7 * 24 * 60 * 60 * 1000
    IN  NumGe(diff, 0) /\ NumLe(diff, sevenDaysMs)

isEtaWithinSevenDays(etaDate, nowTime) ==
    LET diff == NumMinus(etaDate, nowTime)
        sevenDaysMs == 7 * 24 * 60 * 60 * 1000
    IN  NumGt(diff, 0) /\ NumLe(diff, sevenDaysMs)

hasEtaPassed(etaDate, nowTime) == NumLt(etaDate, nowTime)

\* The render of the table: the two badges of every visible row
RenderBadges ==
    /\ pc = "ready"
    /\ badges' = [i \in 1..Len(visibleRows) |->
                    [within7 |-> isEtaWithinSevenDays(visibleRows[i].etaDate, now),
                     passed |-> hasEtaPassed(visibleRows[i].etaDate, now)]]
    /\ pc' = "rendered"
    /\ UNCHANGED <<PALLET_ITEMS, SOURCE_DATA, now, variant, filters, sort,
                   filteredRows, refilteredRows, visibleRows, statuses,
                   preAllocated, notes, viewMode, downloads, csvValue, csvText>>

-----------------------------------------------------------------------------
(* Specification SpecBadges: the badges of the visible rows, with and       *)
(* without the next-arrivals filter, with eta on both sides of now and of   *)
(* now + 7 days                                                             *)

BadgeOffsets ==
    {0 - ONE_DAY_MS, 0 - 1, 0, 1, 7 * ONE_DAY_MS - 1, 7 * ONE_DAY_MS,
     7 * ONE_DAY_MS + 1}

BadgeItems(t) ==
    {RawItem("Rotterdam", "Hass", "18", "4kg", IsoString(t - ONE_DAY_MS), eta) :
        eta \in DateStrings(t, BadgeOffsets)}

InitBadges == \E t \in NowValues : InitPage(BadgeItems(t), t)

NextBadges ==
    \/ RenderBadges
    \/ \E value \in BOOLEAN : handleFilterChange("nextArrivalsOnly", value)

SpecBadges == InitBadges /\ [][NextBadges]_vars

\* C24: isEtaWithinSevenDays(eta, now) is true iff 0 < eta - now <= 7 days
\* (false at eta = now, true at exactly now + 7 days), hasEtaPassed(eta, now)
\* is true iff eta < now, and for no eta and now are both true.
C24_BadgeHelpers ==
    pc = "rendered" =>
        /\ Len(badges) = Len(visibleRows)
        /\ \A i \in 1..Len(visibleRows) :
              LET eta == visibleRows[i].etaDate
              IN  /\ badges[i].within7
                     <=> /\ ~IsNaN(eta)
                         /\ 0 < eta - now
                         /\ eta - now <= 7 * ONE_DAY_MS
                  /\ badges[i].passed <=> (~IsNaN(eta) /\ eta < now)
                  /\ eta = now => ~badges[i].within7
                  /\ eta = now + 7 * ONE_DAY_MS => badges[i].within7
                  /\ ~(badges[i].within7 /\ badges[i].passed)

\* A row with eta = now and a row with eta = now + 7 days have been rendered:
\* the first carries neither badge, the second the 7-day badge
C24_Witness ==
    /\ pc = "rendered"
    /\ Len(visibleRows) = 2
    /\ visibleRows[1].etaDate = now
    /\ visibleRows[2].etaDate = now + 7 * ONE_DAY_MS
    /\ badges = <<[within7 |-> FALSE, passed |-> FALSE],
                  [within7 |-> TRUE, passed |-> FALSE]>>

-----------------------------------------------------------------------------
(* Specification SpecScenario: three cargoes, one arrived a day ago, one    *)
(* under way that arrives in 2 days, one that leaves later and arrives in   *)
(* 10 days                                                                  *)

ScenarioPorts == {"Rotterdam", "Algeciras"}

\* The datasets of the scenario for the reference time t
ScenarioDatasets(t) ==
    {NumberLines(<<RawItem(p1, "Hass", "18", "4kg", etd1,
                           IsoString(t - ONE_DAY_MS)),
                   RawItem(p2, "Hass", "18", "4kg", IsoString(t - ONE_DAY_MS),
                           IsoString(t + 2 * ONE_DAY_MS)),
                   RawItem(p3, "Hass", "18", "4kg", etd3,
                           IsoString(t + 10 * ONE_DAY_MS))>>) :
        p1 \in ScenarioPorts, p2 \in ScenarioPorts, p3 \in ScenarioPorts,
        etd1 \in {IsoString(t - 3 * ONE_DAY_MS), IsoString(t - ONE_DAY_MS),
                  Malformed},
        etd3 \in {IsoString(t + 1), IsoString(t + 8 * ONE_DAY_MS)}}

InitScenario ==
    /\ now \in {DateParse(FIXED_NOW_ISO), DateParse(FIXED_NOW_LAYOUT)}
    /\ PALLET_ITEMS \in ScenarioDatasets(now)
    /\ SOURCE_DATA = Normalize(PALLET_ITEMS)
    /\ variant = "range"
    /\ filters = INITIAL_FILTERS
    /\ sort = <<>>
    /\ filteredRows = pageFilteredRows(filters, <<>>)
    /\ refilteredRows = <<>>
    /\ visibleRows = filteredRows
    /\ statuses = <<>>
    /\ NoPageState
    /\ pc = "ready"

NextScenario ==
    \/ \E value \in BOOLEAN : handleFilterChange("nextArrivalsOnly", value)
    \/ clearAllFilters
    \/ ClassifyRows

SpecScenario == InitScenario /\ [][NextScenario]_vars

\* C25: for three rows with eta = now - 1 day, eta = now + 2 days (etd =
\* now - 1 day) and eta = now + 10 days (etd in the future), computeStatus
\* yields Arrived, At sea, Scheduled; applyFilters with only nextArrivalsOnly
\* set returns exactly the second row; the arrival summary of the three rows
\* has exactly two groups, the second row under days = 2 and the third under
\* days = 10.
C25_ThreeCargoScenario ==
    /\ pc = "classified" => statuses = <<"Arrived", "At sea", "Scheduled">>
    /\ filters = [INITIAL_FILTERS EXCEPT !.nextArrivalsOnly = TRUE]
       => filteredRows = <<SOURCE_DATA[2]>>
    /\ filters = INITIAL_FILTERS
       => /\ filteredRows = SOURCE_DATA
          /\ \A summary \in arrivalsSummary(filteredRows, now) :
                /\ Len(summary.groups) = 2
                /\ summary.totals.groups = 2
                /\ summary.groups[1].daysToArrival = 2
                /\ summary.groups[1].port_destination
                      = SOURCE_DATA[2].port_destination
                /\ summary.groups[1].lines = 1
                /\ summary.groups[2].daysToArrival = 10
                /\ summary.groups[2].port_destination
                      = SOURCE_DATA[3].port_destination
                /\ summary.groups[2].lines = 1

\* The three rows have been classified while only the next-arrivals filter
\* was set, which kept the second row alone
C25_Witness ==
    /\ Len(SOURCE_DATA) = 3
    /\ pc = "classified"
    /\ statuses = <<"Arrived", "At sea", "Scheduled">>
    /\ filters = [INITIAL_FILTERS EXCEPT !.nextArrivalsOnly = TRUE]
    /\ filteredRows = <<SOURCE_DATA[2]>>

-----------------------------------------------------------------------------
(* The zone selector of src/unnamed/part_002, under SpecSession *)

\* C26: a zone value that is no key of the known zones, handed to the zone
\* change handler, is treated as unconstrained: the zone becomes "All", no
\* fault is raised and the port constraint is kept.
C26_UnknownZoneFallsBack ==
    [][\A rawValue \in ZoneValues \ ({"", "All"} \cup DOMAIN ZONES) :
          (variant = "zones" /\ handleZoneChange(rawValue))
          => /\ filters'.zone = "All"
             /\ filters'.port = filters.port
             /\ pc' # "fault"]_vars

\* The port of the criteria, when set under a zone, is a port of that zone
PortInZone(criteria) ==
    (criteria.zone # "All" /\ criteria.port # "")
    => includes(ZONES[criteria.zone], criteria.port)

\* C27: on the page with zones, after any sequence of zone changes, port
\* selections among the offered portOptions, and clear-all actions: if the
\* zone is not "All" and the port is non-empty then the port belongs to the
\* port set of the zone; and a zone change clears the port exactly when the
\* previous port is non-empty and not in the new zone, and otherwise leaves
\* it unchanged.
C27_PortStaysInZone ==
    /\ variant = "zones" => PortInZone(filters)
    /\ [][variant = "zones" =>
            /\ PortInZone(filters')
            /\ \A rawValue \in {"", "All"} \cup DOMAIN ZONES :
                  handleZoneChange(rawValue) =>
                      LET zone == IF rawValue = "" THEN "All" ELSE rawValue
                          inZone == \/ zone = "All"
                                    \/ includes(ZONES[zone], filters.port)
                      IN  /\ filters'.zone = zone
                          /\ filters'.port =
                                IF filters.port # "" /\ ~inZone
                                THEN "" ELSE filters.port]_vars

\* The zone South is set together with one of its ports
C27_Witness ==
    /\ variant = "zones"
    /\ filters.zone = "South"
    /\ filters.port = "Algeciras"
    /\ Len(filteredRows) > 0

-----------------------------------------------------------------------------
(* The allocation toggle of layout.tsx, under SpecSession *)

\* The effective flags of two maps agree on every row of the dataset
SameFlags(a, b) ==
    \A i \in 1..Len(SOURCE_DATA) :
        isRowPreAllocated(a, SOURCE_DATA[i]) = isRowPreAllocated(b, SOURCE_DATA[i])

\* C28: toggling the allocation of a row flips the effective flag of the
\* stable key of that row (unset or false to true, true to false) and leaves
\* the flag of every other stable key, the filter criteria and the sort spec
\* unchanged; toggling the same row once more restores the effective flag of
\* every row.
C28_ToggleFlipsOneFlag ==
    [][\A i \in 1..Len(SOURCE_DATA) :
          (variant = "range" /\ handleTogglePreAllocated(SOURCE_DATA[i])) =>
              LET key == SOURCE_DATA[i].stableKey
              IN  /\ flagOf(preAllocated', key) = ~flagOf(preAllocated, key)
                  /\ \A j \in 1..Len(SOURCE_DATA) :
                        SOURCE_DATA[j].stableKey # key =>
                            isRowPreAllocated(preAllocated', SOURCE_DATA[j])
                            = isRowPreAllocated(preAllocated, SOURCE_DATA[j])
                  /\ \A k \in DOMAIN preAllocated \ {key} :
                        /\ k \in DOMAIN preAllocated'
                        /\ preAllocated'[k] = preAllocated[k]
                  /\ DOMAIN preAllocated' \subseteq DOMAIN preAllocated \cup {key}
                  /\ filters' = filters
                  /\ sort' = sort
                  /\ SameFlags(togglePreAllocated(preAllocated', key),
                               preAllocated)]_vars

\* One row has been toggled twice and is unallocated again, another row is
\* allocated, and a filter and a sort are set
C28_Witness ==
    /\ variant = "range"
    /\ Len(SOURCE_DATA) = 2
    /\ \E i, j \in 1..2 :
          /\ SOURCE_DATA[i].stableKey \in DOMAIN preAllocated
          /\ ~isRowPreAllocated(preAllocated, SOURCE_DATA[i])
          /\ isRowPreAllocated(preAllocated, SOURCE_DATA[j])
    /\ filters.preAllocatedFilter = "not_pre"
    /\ sort # <<>>

-----------------------------------------------------------------------------
(* The three 7-day windows of the page, under SpecBadges *)

\* The row, unallocated and alone, enters unallocatedKg7d of the KPIs
InKpiHorizon(row) ==
    kpis(<<row>>, <<>>, now).unallocatedKg7d = weightOf(row)

\* C29: for every row with a parseable eta and every now, the row passes the
\* nextArrivalsOnly filter (window end: now plus 7 UTC calendar days) iff
\* isEtaWithinSevenDays(eta, now) is true (7 x 24 h in milliseconds) iff the
\* row falls in the 7-day horizon of the KPIs; so the rows shown under 'Next
\* arrivals' are exactly the rows that carry the <=7d badge.
C29_SevenDayWindowsAgree ==
    LET next == applyFilters(SOURCE_DATA,
                    [dataFilters(INITIAL_FILTERS) EXCEPT !.nextArrivalsOnly = TRUE],
                    now)
    IN  /\ \A i \in 1..Len(SOURCE_DATA) :
              LET row == SOURCE_DATA[i]
              IN  ~IsNaN(row.etaDate) =>
                      /\ InSeq(row, next) <=> isEtaWithinSevenDays(row.etaDate, now)
                      /\ InSeq(row, next) <=> InKpiHorizon(row)
        /\ filters.nextArrivalsOnly =>
              /\ filteredRows = next
              /\ \A i \in 1..Len(SOURCE_DATA) :
                    InSeq(SOURCE_DATA[i], visibleRows)
                    <=> isEtaWithinSevenDays(SOURCE_DATA[i].etaDate, now)
              /\ pc = "rendered" =>
                    \A i \in 1..Len(visibleRows) : badges[i].within7

\* At a reference time that is no midnight, with the next-arrivals filter
\* set, the row with eta = now + 7 days is shown with its badge and the row
\* with eta 1 ms later is not shown
C29_Witness ==
    /\ now % ONE_DAY_MS # 0
    /\ filters.nextArrivalsOnly
    /\ pc = "rendered"
    /\ Len(SOURCE_DATA) = 2
    /\ SOURCE_DATA[1].etaDate = now + 7 * ONE_DAY_MS
    /\ SOURCE_DATA[2].etaDate = now + 7 * ONE_DAY_MS + 1
    /\ visibleRows = <<SOURCE_DATA[1]>>
    /\ badges = <<[within7 |-> TRUE, passed |-> FALSE]>>

====
